---- MODULE Spec2Model ----
(***************************************************************************)
(* A model of Tomaszal's C preprocessor (TCPP): the character reader, the  *)
(* tokenizer, the token list, the macro table, the preprocessor driver     *)
(* and the writer, as one state machine.  Characters are one-character     *)
(* strings, texts are sequences of characters, pointers are naturals with  *)
(* NULL == 0, and the heap of tokens is a function from live addresses to  *)
(* Token records.                                                          *)
(***************************************************************************)
EXTENDS Integers, Sequences, FiniteSets, TLC

VARIABLES
    fs,             \* the files on disk: path -> content
    keep_comments,  \* args->keep_comments
    pc,             \* position of the program in main / preprocess_token_list
    mem,            \* the heap: [tok: address -> Token, brk: last address given out]
    token_list,     \* main's TokenList: [front_token, back_token]
    tk,             \* the running tokenize_file call (its locals and its list)
    pp,             \* the locals of preprocess_token_list
    file_vector,    \* the vector of file names opened so far
    counts,         \* what main printed: [lines, comments]
    out,            \* the output file: NoFile until it is opened for writing
    diag            \* the diagnostics written to stderr, in order

vars == <<fs, keep_comments, pc, mem, token_list, tk, pp, file_vector, counts, out, diag>>

(***************************************************************************)
(* Characters                                                              *)
(***************************************************************************)
LF == "\n"
CR == "\r"
TAB == "\t"
BSL == "\\"
DQ == "\""
SQ == "'"
EOF == "EOF"
NUL == "NUL"
NULL == 0
NullString == <<"(null)">>
NoFile == <<"(no file)">>

Printable ==
    <<" ", "!", "\"", "#", "$", "%", "&", "'", "(", ")", "*", "+", ",", "-", ".", "/",
      "0", "1", "2", "3", "4", "5", "6", "7", "8", "9", ":", ";", "<", "=", ">", "?",
      "@", "A", "B", "C", "D", "E", "F", "G", "H", "I", "J", "K", "L", "M", "N", "O",
      "P", "Q", "R", "S", "T", "U", "V", "W", "X", "Y", "Z", "[", "\\", "]", "^", "_",
      "GRAVE", "a", "b", "c", "d", "e", "f", "g", "h", "i", "j", "k", "l", "m", "n", "o",
      "p", "q", "r", "s", "t", "u", "v", "w", "x", "y", "z", "{", "|", "}", "~">>

Chars == {Printable[i] : i \in 1..Len(Printable)} \cup {TAB, LF, CR}

\* The character's code in the execution character set (ASCII).
CharCode ==
    [c \in Chars |->
        IF c = TAB THEN 9
        ELSE IF c = LF THEN 10
        ELSE IF c = CR THEN 13
        ELSE 31 + (CHOOSE i \in 1..Len(Printable) : Printable[i] = c)]

isalpha(c) == c \in Chars /\ (CharCode[c] \in 65..90 \/ CharCode[c] \in 97..122)
isdigit(c) == c \in Chars /\ CharCode[c] \in 48..57
isspace(c) == c \in Chars /\ (CharCode[c] \in 9..13 \/ CharCode[c] = 32)

is_identifier(c) == isalpha(c) \/ c = "_" \/ c = "$"

(***************************************************************************)
(* Locations and tokens                                                    *)
(***************************************************************************)
same_line(loc1, loc2) == loc1.line = loc2.line /\ loc1.file_name = loc2.file_name

\* What calloc gives: every field zero.
ZeroToken ==
    [string |-> NullString, operator |-> NUL,
     is_identifier |-> FALSE, is_number |-> FALSE, is_comment |-> FALSE, is_directive |-> FALSE,
     location |-> [file_name |-> NULL, line |-> 0, column |-> 0],
     prev |-> NULL, next |-> NULL]

EmptyList == [front_token |-> NULL, back_token |-> NULL]
\* args = calloc(1, sizeof *args): the Arguments with every field zero.
ZeroArguments ==
    [verbose |-> FALSE, quiet |-> FALSE, keep_comments |-> FALSE,
     input_file |-> NullString, output_file |-> NullString]

\* The process's resources at its start: no token allocated, no stream
\* open, the Arguments as calloc gives them.
EmptyMem == [tok |-> <<>>, brk |-> 0, open |-> <<>>, args |-> ZeroArguments]

\* calloc of one Token: the heap with a fresh address holding `t`.
Alloc(m, t) == [m EXCEPT !.tok = (m.brk + 1 :> t) @@ m.tok, !.brk = m.brk + 1]

\* fopen(file_name, "r") of a file that is there: one more open stream.  No
\* fclose is called anywhere, so a stream stays open once it is opened.
fopen(m, file_name) == [m EXCEPT !.open = Append(@, file_name)]

\* free of one Token.
Free(m, a) == [m EXCEPT !.tok = [b \in (DOMAIN m.tok) \ {a} |-> m.tok[b]]]

\* new_token that leaves the location at the end of the token.
new_token_at_end(m, string, end_location) ==
    Alloc(m, [ZeroToken EXCEPT !.string = string, !.location = end_location])

\* new_token: the token's location is the end location moved back by the length.
new_token(m, string, end_location) ==
    Alloc(m, [ZeroToken EXCEPT
                 !.string = string,
                 !.location = [end_location EXCEPT !.column = @ - Len(string)]])

\* string[i] of a C string (0-based), '\0' at and past its end.
CharAt(string, i) == IF i < Len(string) THEN string[i + 1] ELSE NUL

\* Flags that take every token after a `#` for a directive.
set_token_flags_after_any_hash(m, a) ==
    LET t == m.tok[a]
        c0 == CharAt(t.string, 0)
        c1 == CharAt(t.string, 1)
    IN [m EXCEPT !.tok[a] =
            [t EXCEPT !.operator = IF c1 = NUL THEN c0 ELSE NUL,
                      !.is_identifier = is_identifier(c0),
                      !.is_number = isdigit(c0),
                      !.is_comment = (c0 = "/" /\ (c1 = "/" \/ c1 = "*")),
                      !.is_directive = (t.prev # NULL /\ m.tok[t.prev].operator = "#")]]

set_token_flags(m, a) ==
    LET t == m.tok[a]
        op == IF CharAt(t.string, 1) = NUL THEN CharAt(t.string, 0) ELSE NUL
        c0 == CharAt(t.string, 0)
        c1 == CharAt(t.string, 1)
        d0 == t.prev # NULL /\ m.tok[t.prev].operator = "#"
        d1 == IF d0 /\ m.tok[t.prev].prev # NULL
                    /\ same_line(m.tok[t.prev].location, m.tok[m.tok[t.prev].prev].location)
              THEN FALSE ELSE d0
    IN [m EXCEPT !.tok[a] =
            [t EXCEPT !.operator = op,
                      !.is_identifier = is_identifier(c0),
                      !.is_number = isdigit(c0),
                      !.is_comment = (c0 = "/" /\ (c1 = "/" \/ c1 = "*")),
                      !.is_directive = d1]]

\* insert_token: [mem, list] after appending token `a` to `list`.
insert_token(m, list, a) ==
    LET m1 == IF list.front_token = NULL THEN m
              ELSE [m EXCEPT !.tok[list.back_token].next = a]
        l1 == IF list.front_token = NULL THEN [list EXCEPT !.front_token = a] ELSE list
        m2 == [m1 EXCEPT !.tok[a].prev = l1.back_token]
        l2 == [l1 EXCEPT !.back_token = a]
    IN [mem |-> set_token_flags(m2, a), list |-> l2]

\* delete_token_from_list that leaves the back anchor alone.
delete_token_from_list_keep_back(m, list, a) ==
    LET prev == m.tok[a].prev
        next == m.tok[a].next
        m1 == IF prev # NULL THEN [m EXCEPT !.tok[prev].next = next] ELSE m
        m2 == IF next # NULL THEN [m1 EXCEPT !.tok[next].prev = prev] ELSE m1
        l1 == IF list.front_token = a THEN [list EXCEPT !.front_token = next] ELSE list
    IN [mem |-> Free(m2, a), list |-> l1, next |-> next]

\* delete_token_from_list: [mem, list, next]; `a` is not NULL.
delete_token_from_list(m, list, a) ==
    LET prev == m.tok[a].prev
        next == m.tok[a].next
        m1 == IF prev # NULL THEN [m EXCEPT !.tok[prev].next = next] ELSE m
        m2 == IF next # NULL THEN [m1 EXCEPT !.tok[next].prev = prev] ELSE m1
        l1 == IF list.front_token = a THEN [list EXCEPT !.front_token = next] ELSE list
        l2 == IF l1.back_token = a THEN [l1 EXCEPT !.back_token = prev] ELSE l1
    IN [mem |-> Free(m2, a), list |-> l2, next |-> next]

(***************************************************************************)
(* Character reader                                                        *)
(***************************************************************************)
\* fgetc: the next character and the new position; at end of file the
\* position stays.
fgetc(content, pos) ==
    IF pos < Len(content) THEN [ch |-> content[pos + 1], pos |-> pos + 1]
    ELSE [ch |-> EOF, pos |-> pos]

\* fseek(ifs, -1, SEEK_CUR): fails, and leaves the position, at the start.
fseek_back(pos) == IF pos > 0 THEN pos - 1 ELSE pos

\* A character and the stream position after it.
At(ch, pos) == [ch |-> ch, pos |-> pos]

\* f_peek_char after "\\\r\n": the character after them, and four fseeks back.
f_peek_char_crlf(g3) ==
    At(g3.ch, fseek_back(fseek_back(fseek_back(fseek_back(g3.pos)))))

\* f_peek_char after the backslash and a line terminator g1: g2 is the
\* character read after them.
f_peek_char_terminator(content, g1, g2) ==
    IF g2.ch = LF /\ g1.ch = CR THEN f_peek_char_crlf(fgetc(content, g2.pos))
    ELSE At(g2.ch, fseek_back(fseek_back(fseek_back(g2.pos))))

\* f_peek_char after a backslash: g1 is the character read after it.
f_peek_char_continued(content, g1) ==
    IF g1.ch = LF \/ g1.ch = CR THEN f_peek_char_terminator(content, g1, fgetc(content, g1.pos))
    ELSE At(BSL, fseek_back(fseek_back(g1.pos)))

\* f_peek_char after its first fgetc, g0.
f_peek_char_first(content, g0) ==
    IF g0.ch = EOF THEN At(EOF, g0.pos)
    ELSE IF g0.ch = BSL THEN f_peek_char_continued(content, fgetc(content, g0.pos))
    ELSE At(g0.ch, fseek_back(g0.pos))

\* f_peek_char: [ch, pos], the character peeked and the position it leaves.
f_peek_char(content, pos) == f_peek_char_first(content, fgetc(content, pos))

\* f_read_char from "Progress location" on: [ch, pos, location, ok].
f_read_char_progress(ch, pos, location) ==
    [ch |-> ch, pos |-> pos,
     location |-> IF ch = LF THEN [location EXCEPT !.line = @ + 1, !.column = 0]
                  ELSE [location EXCEPT !.column = @ + 1],
     ok |-> ch # EOF]

\* "Skip LF": pk is what f_peek_char gave after a CR.
f_read_char_skip_lf(content, pk) ==
    IF pk.ch = LF THEN fgetc(content, pk.pos).pos ELSE pk.pos

\* f_read_char from "Convert CR & CRLF line endings" on, r1 = [ch, pos]
\* being the character in *ch and the stream position.
f_read_char_convert(content, r1, location) ==
    IF r1.ch = CR
    THEN f_read_char_progress(LF, f_read_char_skip_lf(content, f_peek_char(content, r1.pos)),
                              location)
    ELSE f_read_char_progress(r1.ch, r1.pos, location)

\* The body of the continued-line branch after peek1 and peek2 are read.
f_read_char_crlf(content, g1, g2) ==
    IF g2.ch = LF /\ g1.ch = CR THEN fgetc(content, g2.pos) ELSE g2

\* The body of the continued-line branch: g1 is peek1.
f_read_char_terminator(content, g1) ==
    IF g1.ch = LF \/ g1.ch = CR THEN f_read_char_crlf(content, g1, fgetc(content, g1.pos))
    ELSE At(BSL, fseek_back(g1.pos))

\* The second f_peek_char of the continued-line test gave pk2.
f_read_char_second_peek(content, pk2) ==
    IF pk2.ch = CR THEN f_read_char_terminator(content, fgetc(content, pk2.pos))
    ELSE At(BSL, pk2.pos)

\* The first f_peek_char of the continued-line test gave pk1; the second
\* one is only made when the first did not give '\n'.
f_read_char_first_peek(content, pk1) ==
    IF pk1.ch = LF THEN f_read_char_terminator(content, fgetc(content, pk1.pos))
    ELSE f_read_char_second_peek(content, f_peek_char(content, pk1.pos))

\* f_read_char up to the end of the continued-line branch: [ch, pos].
f_read_char_first(content, g0) ==
    IF g0.ch = BSL THEN f_read_char_first_peek(content, f_peek_char(content, g0.pos))
    ELSE g0

\* f_read_char: [ch, pos, location, ok].
f_read_char(content, pos, location) ==
    f_read_char_convert(content, f_read_char_first(content, fgetc(content, pos)), location)

(***************************************************************************)
(* Tokenizer: tokenize_file as a step function.  `t` holds the locals of   *)
(* the call: the stream position, the location, the character in hand, the *)
(* string being built, the loop the call is in and the list being built.   *)
(***************************************************************************)
Str_include == <<"i", "n", "c", "l", "u", "d", "e">>
Str_define == <<"d", "e", "f", "i", "n", "e">>

\* The locals of tokenize_file right after a successful fopen.
tokenize_file_enter(path, file_name, ret) ==
    [path |-> path, ret |-> ret, pos |-> 0,
     location |-> [file_name |-> file_name, line |-> 1, column |-> 0],
     ch |-> NUL, token_string |-> <<>>, end |-> NUL, mode |-> "scan",
     list |-> EmptyList]

\* The locals and the heap of a step: [tk, mem].
TkMem(t, m) == [tk |-> t, mem |-> m]

\* The locals after a character has been peeked or read into ch.
Took(t, r) == [t EXCEPT !.pos = r.pos, !.ch = r.ch]
Read(t, r) == [t EXCEPT !.pos = r.pos, !.ch = r.ch, !.location = r.location]

\* insert_token(token_list, token) for the token just allocated in m1.
insert_last(m1, list) == insert_token(m1, list, m1.brk)

\* Back to the head of the while loop with the token inserted.
emit_done(t, r) ==
    TkMem([t EXCEPT !.list = r.list, !.mode = "scan", !.token_string = <<>>], r.mem)

\* insert_token(token_list, new_token(token_string, location)), and back to
\* the head of the while loop.
emit_token(t, m) ==
    emit_done(t, insert_last(new_token(m, t.token_string, t.location), t.list))

\* ch == '/' and the first peek was not '/': the second peek, pkB.
scan_slash_star(t1, m, pkB) ==
    IF pkB.ch = "*" THEN TkMem([t1 EXCEPT !.mode = "block_comment", !.pos = pkB.pos], m)
    ELSE emit_token([t1 EXCEPT !.pos = pkB.pos, !.token_string = <<"/">>], m)

\* ch == '/': the first peek, pkA.
scan_slash(content, t1, m, pkA) ==
    IF pkA.ch = "/" THEN TkMem([t1 EXCEPT !.mode = "line_comment", !.pos = pkA.pos], m)
    ELSE scan_slash_star(t1, m, f_peek_char(content, pkA.pos))

\* The branches of the while loop's body for the character read, t1.ch.
scan_branch(content, t1, m) ==
    IF isspace(t1.ch) THEN TkMem(t1, m)
    ELSE IF is_identifier(t1.ch) \/ isdigit(t1.ch) THEN TkMem([t1 EXCEPT !.mode = "name"], m)
    ELSE IF t1.ch = "/" THEN scan_slash(content, t1, m, f_peek_char(content, t1.pos))
    ELSE IF t1.ch = DQ \/ t1.ch = SQ THEN
        TkMem([t1 EXCEPT !.mode = "read_until", !.token_string = <<t1.ch>>, !.end = t1.ch], m)
    ELSE IF t1.ch = "<" /\ t1.list.back_token # NULL
                        /\ m.tok[t1.list.back_token].is_directive
                        /\ m.tok[t1.list.back_token].string = Str_include THEN
        TkMem([t1 EXCEPT !.mode = "read_until", !.token_string = <<"<">>, !.end = ">"], m)
    ELSE emit_token([t1 EXCEPT !.token_string = <<t1.ch>>], m)

\* The head of the while loop after f_read_char gave r.
scan_read(content, t, m, r) ==
    IF ~r.ok THEN TkMem([Read(t, r) EXCEPT !.mode = "done"], m)
    ELSE scan_branch(content, Read(t, r), m)

\* One pass through the head of the while loop: read a character and choose
\* the branch.
scan_step(content, t, m) == scan_read(content, t, m, f_read_char(content, t.pos, t.location))

\* The do-while loop of names, numbers and // comments after the
\* f_read_char of its condition gave r: it goes on while the read succeeds.
loop_read(t, m, r) ==
    IF r.ok THEN TkMem(Read(t, r), m) ELSE emit_token(Read(t, r), m)

\* One iteration of the do-while loop of names and numbers; s is the string
\* with ch appended, pk is what f_peek_char gave.
name_peeked(content, t, m, pk) ==
    IF is_identifier(pk.ch) \/ isdigit(pk.ch)
    THEN loop_read(t, m, f_read_char(content, pk.pos, t.location))
    ELSE emit_token(Took(t, pk), m)

name_step(content, t, m) ==
    name_peeked(content, [t EXCEPT !.token_string = Append(@, t.ch)], m,
                f_peek_char(content, t.pos))

\* One iteration of the do-while loop of a // comment.
line_comment_peeked(content, t, m, pk) ==
    IF pk.ch # LF
    THEN loop_read(t, m, f_read_char(content, pk.pos, t.location))
    ELSE emit_token(Took(t, pk), m)

line_comment_step(content, t, m) ==
    line_comment_peeked(content, [t EXCEPT !.token_string = Append(@, t.ch)], m,
                        f_peek_char(content, t.pos))

\* The end of a /* comment: "*/" is appended and one character is taken
\* from the stream with fgetc.
block_comment_close(content, t, m) ==
    emit_token([t EXCEPT !.token_string = @ \o <<"*", "/">>,
                         !.pos = fgetc(content, t.pos).pos], m)

\* The condition of the /* loop after f_read_char gave '*' and f_peek_char
\* gave pk.
block_comment_star(content, t, m, pk) ==
    IF pk.ch = "/" THEN block_comment_close(content, [t EXCEPT !.pos = pk.pos], m)
    ELSE TkMem([t EXCEPT !.pos = pk.pos], m)

\* The condition of the /* loop after f_read_char, the locals being t.
block_comment_read(content, t, m, ok) ==
    IF ~ok THEN block_comment_close(content, t, m)
    ELSE IF t.ch = "*" THEN block_comment_star(content, t, m, f_peek_char(content, t.pos))
    ELSE TkMem(t, m)

\* One iteration of the do-while loop of a /* comment.
block_comment_appended(content, t, m, r) == block_comment_read(content, Read(t, r), m, r.ok)

block_comment_step(content, t, m) ==
    block_comment_appended(content, [t EXCEPT !.token_string = Append(@, t.ch)], m,
                           f_read_char(content, t.pos, t.location))

\* One iteration of the do-while loop of f_read_until after f_read_char
\* gave r.
read_until_read(t, m, r) ==
    IF ~r.ok THEN emit_token(Read(t, r), m)
    ELSE IF r.ch # t.end /\ r.ch # LF
    THEN TkMem([Read(t, r) EXCEPT !.token_string = Append(@, r.ch)], m)
    ELSE emit_token([Read(t, r) EXCEPT !.token_string = Append(@, r.ch)], m)

read_until_step(content, t, m) ==
    read_until_read(t, m, f_read_char(content, t.pos, t.location))

\* One step of tokenize_file: [tk, mem].
TokStep(content, t, m) ==
    CASE t.mode = "scan" -> scan_step(content, t, m)
      [] t.mode = "name" -> name_step(content, t, m)
      [] t.mode = "line_comment" -> line_comment_step(content, t, m)
      [] t.mode = "block_comment" -> block_comment_step(content, t, m)
      [] t.mode = "read_until" -> read_until_step(content, t, m)

\* The list of a token list as the sequence of its addresses, front to back
\* along the next links.
RECURSIVE Chain(_, _)
Chain(m, a) == IF a = NULL THEN <<>> ELSE <<a>> \o Chain(m, m.tok[a].next)

Tokens(m, list) == Chain(m, list.front_token)
Texts(m, list) == [i \in 1..Len(Tokens(m, list)) |-> m.tok[Tokens(m, list)[i]].string]

(***************************************************************************)
(* Macro table: the hash map.  An unsigned int is a record of two 16-bit   *)
(* halves, [hi, lo]; the arithmetic is modulo 2^32.                        *)
(***************************************************************************)
RECURSIVE BitXor(_, _)
BitXor(a, b) ==
    IF a = 0 THEN b
    ELSE IF b = 0 THEN a
    ELSE (((a % 2) + (b % 2)) % 2) + 2 * BitXor(a \div 2, b \div 2)

RECURSIVE Pow2(_)
Pow2(n) == IF n = 0 THEN 1 ELSE 2 * Pow2(n - 1)

U32(hi, lo) == [hi |-> hi, lo |-> lo]
Xor32(x, y) == U32(BitXor(x.hi, y.hi), BitXor(x.lo, y.lo))

\* x * y modulo 2^16, for x, y below 2^16
Mul16(x, y) == (x * (y % 256) + ((x * (y \div 256)) % 256) * 256) % 65536

\* x * y modulo 2^32
Mul32(x, y) ==
    LET A == x.lo * (y.lo % 256)
        B == x.lo * (y.lo \div 256)
        low == A + (B % 256) * 256
        carry == (low \div 65536) + (B \div 256)
    IN U32((carry + Mul16(x.hi, y.lo) + Mul16(x.lo, y.hi)) % 65536, low % 65536)

\* x >> n, for 0 < n < 32
Shr32(x, n) ==
    IF n >= 16 THEN U32(0, x.hi \div Pow2(n - 16))
    ELSE U32(x.hi \div Pow2(n), (x.lo \div Pow2(n)) + (x.hi % Pow2(n)) * Pow2(16 - n))

murmur_m == U32(23505, 59797)
murmur_r == 24

\* h ^= h >> n
XorShr(h, n) == Xor32(h, Shr32(h, n))

\* k *= m; k ^= k >> r; k *= m
murmur_mix(k) == Mul32(XorShr(Mul32(k, murmur_m), murmur_r), murmur_m)

\* The loop that mixes 4 bytes at a time into the hash: [h, data], with the
\* bytes left over in data.
RECURSIVE murmur_blocks(_, _)
murmur_blocks(h, data) ==
    IF Len(data) < 4 THEN [h |-> h, data |-> data]
    ELSE murmur_blocks(Xor32(Mul32(h, murmur_m),
                             murmur_mix(U32(data[3] + data[4] * 256, data[1] + data[2] * 256))),
                       SubSeq(data, 5, Len(data)))

\* The switch on the last bytes, which falls through from 3 to 1.
murmur_tail3(h, d) == IF Len(d) = 3 THEN Xor32(h, U32(d[3], 0)) ELSE h
murmur_tail2(h, d) == IF Len(d) >= 2 THEN Xor32(h, U32(0, d[2] * 256)) ELSE h
murmur_tail1(h, d) == IF Len(d) >= 1 THEN Mul32(Xor32(h, U32(0, d[1])), murmur_m) ELSE h
murmur_tail(b) == murmur_tail1(murmur_tail2(murmur_tail3(b.h, b.data), b.data), b.data)

\* h ^= h >> 13; h *= m; h ^= h >> 15
murmur_final(h) == XorShr(Mul32(XorShr(h, 13), murmur_m), 15)

\* MurmurHash2 of the bytes of `key` (a sequence of character codes).
murmur_hash(key, seed) ==
    murmur_final(murmur_tail(murmur_blocks(Xor32(seed, U32(0, Len(key))), key)))

\* new_hash_map(0xffff, 0xb5c236b5): every slot NULL.  A map is
\* [size, seed, map], map holding the slots that are not NULL.
define_map_size == 65535
define_map_seed == U32(46530, 14005)
new_hash_map(size, seed) == [size |-> size, seed |-> seed, map |-> <<>>]

\* h % size (2^16 is 1 modulo 0xffff).
slot_of(h, size) == (h.hi * (65536 % size) + h.lo) % size

\* hash_map_hash: the slot of a key.
hash_map_hash(hash_map, key) ==
    slot_of(murmur_hash([i \in 1..Len(key) |-> CharCode[key[i]]], hash_map.seed),
            hash_map.size)

\* hash_map_insert_key that leaves a slot that holds a value alone.
hash_map_insert_key_first_wins(hash_map, key, value) ==
    IF hash_map_hash(hash_map, key) \in DOMAIN hash_map.map THEN hash_map
    ELSE [hash_map EXCEPT !.map = (hash_map_hash(hash_map, key) :> value) @@ @]

hash_map_insert_key(hash_map, key, value) ==
    [hash_map EXCEPT !.map = (hash_map_hash(hash_map, key) :> value) @@ @]

\* A deletion that empties every slot.
hash_map_delete_key_all(hash_map, key) == [hash_map EXCEPT !.map = <<>>]

\* hash_map_delete_key: the key's slot is NULL again, as calloc left it.
hash_map_delete_key(hash_map, key) ==
    [hash_map EXCEPT !.map = [i \in DOMAIN @ \ {hash_map_hash(hash_map, key)} |-> @[i]]]

\* The value in slot i, NullString for NULL.
slot_value(map, i) == IF i \in DOMAIN map THEN map[i] ELSE NullString

\* hash_map_get_key that finds no key.
hash_map_get_key_none(hash_map, key) == NullString

\* hash_map_get_key: the value in the key's slot.
hash_map_get_key(hash_map, key) == slot_value(hash_map.map, hash_map_hash(hash_map, key))

(***************************************************************************)
(* Counting, comment deletion, writing                                     *)
(***************************************************************************)
RECURSIVE count_lines_from(_, _, _, _)
count_lines_from(m, a, current_line, num) ==
    IF a = NULL THEN num
    ELSE IF m.tok[a].location.line > current_line
         THEN count_lines_from(m, m.tok[a].next, m.tok[a].location.line, num + 1)
         ELSE count_lines_from(m, m.tok[a].next, current_line, num)

\* A count of tokens in place of a count of lines.
count_non_empty_lines_tokens(m, list) == Len(Chain(m, list.front_token))

count_non_empty_lines(m, list) == count_lines_from(m, list.front_token, 0, 0)

RECURSIVE count_comments_from(_, _, _)
count_comments_from(m, a, num) ==
    IF a = NULL THEN num
    ELSE count_comments_from(m, m.tok[a].next, IF m.tok[a].is_comment THEN num + 1 ELSE num)

\* A count of tokens in place of a count of comments.
count_comments_tokens(m, list) == Len(Chain(m, list.front_token))

count_comments(m, list) == count_comments_from(m, list.front_token, 0)

\* delete_comments: [mem, list].
RECURSIVE delete_comments_from(_, _, _)
\* token = delete_token_from_list(token_list, token), d being what it gave.
delete_comments_next(d) == delete_comments_from(d.mem, d.list, d.next)

delete_comments_from(m, list, a) ==
    IF a = NULL THEN [mem |-> m, list |-> list]
    ELSE IF m.tok[a].is_comment THEN delete_comments_next(delete_token_from_list(m, list, a))
    ELSE delete_comments_from(m, list, m.tok[a].next)

delete_comments(m, list) == delete_comments_from(m, list, list.front_token)

Repeat(c, n) == [i \in 1..n |-> c]

\* The loop of write_token_list_to_file from token `a` on, the writer being at
\* `location`: the text written.
RECURSIVE write_tokens(_, _, _)
write_tokens(m, a, location) ==
    IF a = NULL THEN <<>>
    ELSE
        LET t == m.tok[a]
            other == t.location.file_name # location.file_name
            loc1 == IF other THEN t.location ELSE location
            down == IF t.location.line > loc1.line THEN t.location.line - loc1.line ELSE 0
            loc2 == IF down > 0 THEN [loc1 EXCEPT !.line = t.location.line, !.column = 0]
                    ELSE loc1
            right == IF t.location.column > loc2.column
                     THEN t.location.column - loc2.column ELSE 0
            string == IF t.string # NullString THEN t.string ELSE <<>>
        IN (IF other /\ location.line # 0 THEN <<LF>> ELSE <<>>)
           \o Repeat(LF, down) \o Repeat(" ", right) \o string
           \o write_tokens(m, t.next,
                           [loc2 EXCEPT !.column = @ + right + Len(string)])

\* write_token_list_to_file: the content of the output file.
write_token_list_to_file(m, list) ==
    Append(write_tokens(m, list.front_token,
                        [file_name |-> NULL, line |-> 0, column |-> 0]), LF)

\* delete_token_list from a first token `a` (not NULL): every token but the
\* last is freed through the prev link of its successor.  [status, mem];
\* freeing what is not allocated is "abort".
RECURSIVE delete_token_list_from(_, _)
delete_token_list_from(m, a) ==
    LET n == m.tok[a].next
        p == m.tok[n].prev
    IN IF n = NULL THEN [status |-> "ok", mem |-> Free(m, a)]
       ELSE IF p = NULL THEN delete_token_list_from(m, n)
       ELSE IF p \notin DOMAIN m.tok THEN [status |-> "abort", mem |-> m]
       ELSE delete_token_list_from(Free(m, p), n)

(***************************************************************************)
(* Preprocessor driver: preprocess_token_list                              *)
(***************************************************************************)
\* The directory part of the path of the file being preprocessed: the path
\* is cut after its last '/', a '/' in its first character not counting; a
\* path without one is kept whole.
file_location_of(path) ==
    LET cuts == {j \in 2..Len(path) : path[j] = "/"}
    IN IF cuts = {} THEN path
       ELSE SubSeq(path, 1, CHOOSE j \in cuts : \A k \in cuts : k <= j)

\* The name of a user include: the directory, then the token's text after
\* its first character and without its last one (strncat of strlen - 1).
include_file_name(file_location, string) ==
    IF Len(string) <= 1 THEN file_location
    ELSE file_location \o SubSeq(string, 2, Len(string) - 1)

\* delete_token_from_list, which answers NULL for a NULL token.
delete_or_null(m, list, a) ==
    IF a = NULL THEN [mem |-> m, list |-> list, next |-> NULL]
    ELSE delete_token_from_list(m, list, a)

\* token = delete_token_from_list(token_list, token), on what the call
\* before it gave.
delete_next(d) == delete_or_null(d.mem, d.list, d.next)

\* for (i = 0; i < 3; i++) token = delete_token_from_list(token_list, token)
delete_three(m, list, a) == delete_next(delete_next(delete_or_null(m, list, a)))

\* What an iteration of the driver's loop hands back: `status` is "next"
\* (go on with token->next), "tokenize" (an include file is to be
\* tokenized), "segfault" or "exit_failure".
Outcome(status, m, list, p, d) ==
    [status |-> status, mem |-> m, list |-> list, pp |-> p, diag |-> d]

\* The loop that builds a define's value from the tokens on `line`,
\* deleting them: [status, mem, list, token, string].
RECURSIVE define_value(_, _, _, _, _)
define_value_next(del, line, string) == define_value(del.mem, del.list, del.next, line, string)

define_value(m, list, a, line, string) ==
    IF a = NULL THEN
        [status |-> "segfault", mem |-> m, list |-> list, token |-> a, string |-> string]
    ELSE IF ~same_line(m.tok[a].location, line) THEN
        [status |-> "ok", mem |-> m, list |-> list, token |-> a, string |-> string]
    ELSE IF m.tok[a].string = NullString THEN
        [status |-> "segfault", mem |-> m, list |-> list, token |-> a, string |-> string]
    ELSE define_value_next(delete_token_from_list(m, list, a), line, string \o m.tok[a].string)

\* The loop that shifts the tokens after a substituted one on its line.
RECURSIVE shift_line(_, _, _, _)
shift_line(m, location, a, spacing_fix) ==
    IF a = NULL \/ ~same_line(location, m.tok[a].location) THEN m
    ELSE shift_line([m EXCEPT !.tok[a].location.column = @ - spacing_fix],
                    location, m.tok[a].next, spacing_fix)

\* The include branch that says nothing about an include it does not resolve.
include_begin_silent(m, list, p, d, files) ==
    LET a == m.tok[p.token].next IN
    IF a = NULL \/ m.tok[a].string = NullString THEN Outcome("segfault", m, list, p, d)
    ELSE IF CharAt(m.tok[a].string, 0) # DQ THEN
        Outcome("next", m, list, [p EXCEPT !.token = a], d)
    ELSE
        LET file_name == include_file_name(p.file_location, m.tok[a].string)
        IN IF file_name \in DOMAIN files
           THEN Outcome("tokenize", m, list, [p EXCEPT !.token = a, !.file_name = file_name], d)
           ELSE Outcome("exit_failure", m, list, [p EXCEPT !.token = a],
                        Append(d, <<"Could not open file", file_name>>))

\* The include branch that goes on after a file it cannot open.
include_begin_skip_missing(m, list, p, d, files) ==
    LET a == m.tok[p.token].next IN
    IF a = NULL \/ m.tok[a].string = NullString THEN Outcome("segfault", m, list, p, d)
    ELSE IF CharAt(m.tok[a].string, 0) # DQ THEN
        Outcome("next", m, list, [p EXCEPT !.token = a],
                Append(d, <<"Could not find", m.tok[a].string>>))
    ELSE
        LET file_name == include_file_name(p.file_location, m.tok[a].string)
        IN IF file_name \in DOMAIN files
           THEN Outcome("tokenize", m, list, [p EXCEPT !.token = a, !.file_name = file_name], d)
           ELSE Outcome("next", m, list, [p EXCEPT !.token = a],
                        Append(d, <<"Could not open file", file_name>>))

\* The include branch up to the call of tokenize_file.
include_begin(m, list, p, d, files) ==
    LET a == m.tok[p.token].next IN
    IF a = NULL \/ m.tok[a].string = NullString THEN Outcome("segfault", m, list, p, d)
    ELSE IF CharAt(m.tok[a].string, 0) # DQ THEN
        Outcome("next", m, list, [p EXCEPT !.token = a],
                Append(d, <<"Could not find", m.tok[a].string>>))
    ELSE
        LET file_name == include_file_name(p.file_location, m.tok[a].string)
        IN IF file_name \in DOMAIN files
           THEN Outcome("tokenize", m, list, [p EXCEPT !.token = a, !.file_name = file_name], d)
           ELSE Outcome("exit_failure", m, list, [p EXCEPT !.token = a],
                        Append(d, <<"Could not open file", file_name>>))

\* A spacer on the line of the directive itself.
include_spacer_same_line(m, a) ==
    Alloc(m, [ZeroToken EXCEPT
                 !.location = [file_name |-> m.tok[a].location.file_name,
                               line |-> m.tok[a].location.line,
                               column |-> 0],
                 !.prev = a,
                 !.next = m.tok[a].next])

\* The spacer: a token without a string on the line after the directive,
\* between the directive's last token `a` and its successor.
include_spacer(m, a) ==
    Alloc(m, [ZeroToken EXCEPT
                 !.location = [file_name |-> m.tok[a].location.file_name,
                               line |-> m.tok[a].location.line + 1,
                               column |-> 0],
                 !.prev = a,
                 !.next = m.tok[a].next])

\* token->next->prev = spacer (for a successor) and token->next = spacer,
\* the spacer being the token just allocated in m1.
include_link_spacer(m1, a) ==
    IF m1.tok[a].next # NULL
    THEN [m1 EXCEPT !.tok[m1.tok[a].next].prev = m1.brk, !.tok[a].next = m1.brk]
    ELSE [m1 EXCEPT !.tok[a].next = m1.brk]

\* temp_token_list->back_token->next = token and token->prev = back_token.
include_splice_back(m5, l5, token, p, d, temp) ==
    IF temp.back_token = NULL THEN Outcome("segfault", m5, l5, p, d)
    ELSE Outcome("next",
                 [m5 EXCEPT !.tok[token].prev = temp.back_token,
                            !.tok[temp.back_token].next = token],
                 l5, [p EXCEPT !.token = token], d)

\* The front of the included list goes after `before`, the token before
\* the spacer, or becomes the front of the list.
include_splice_front(m4, l4, token, before, p, d, temp) ==
    IF before # NULL /\ temp.front_token = NULL THEN Outcome("segfault", m4, l4, p, d)
    ELSE IF before # NULL
    THEN include_splice_back([m4 EXCEPT !.tok[before].next = temp.front_token,
                                        !.tok[temp.front_token].prev = before],
                             l4, token, p, d, temp)
    ELSE include_splice_back(m4, [l4 EXCEPT !.front_token = temp.front_token],
                             token, p, d, temp)

\* The splice after the three deletions gave del.
include_splice(del, p, d, temp) ==
    IF del.next = NULL THEN Outcome("segfault", del.mem, del.list, p, d)
    ELSE include_splice_front(del.mem, del.list, del.next, del.mem.tok[del.next].prev,
                              p, d, temp)

\* token = token->prev->prev and the deletion of the three tokens.
include_spaced(m3, list, p, d, temp) ==
    IF m3.tok[p.token].prev = NULL THEN Outcome("segfault", m3, list, p, d)
    ELSE include_splice(delete_three(m3, list, m3.tok[m3.tok[p.token].prev].prev), p, d, temp)

\* The include branch after tokenize_file has returned `temp`: the spacer,
\* the deletion of the three tokens and the splice.
include_end(m, list, p, d, temp) ==
    include_spaced(include_link_spacer(include_spacer(m, p.token), p.token), list, p, d, temp)

\* The define branch after the deletion of the directive's three tokens.
define_deleted(del, p, d, map1) ==
    Outcome("next", del.mem, del.list, [p EXCEPT !.token = del.next, !.define_map = map1], d)

\* The define branch after the loop of the value gave v.
define_valued(v, key, start_token, p, d) ==
    IF v.status = "segfault" \/ key = NullString THEN Outcome("segfault", v.mem, v.list, p, d)
    ELSE define_deleted(delete_three(v.mem, v.list, start_token), p, d,
                        hash_map_insert_key(p.define_map, key, v.string))

\* The define branch after token = token->next->next.
define_named(m, list, p, d, name, value_token) ==
    IF value_token = NULL THEN Outcome("segfault", m, list, p, d)
    ELSE define_valued(define_value(m, list, value_token, m.tok[value_token].location, <<>>),
                       m.tok[name].string, m.tok[p.token].prev, p, d)

\* The define branch.
define_directive(m, list, p, d) ==
    IF m.tok[p.token].next = NULL THEN Outcome("segfault", m, list, p, d)
    ELSE define_named(m, list, p, d, m.tok[p.token].next, m.tok[m.tok[p.token].next].next)

\* A shift that begins with the substituted token itself.
substitute_shift_from_token(m1, a, spacing_fix) ==
    shift_line(m1, m1.tok[a].location, a, spacing_fix)

\* The shift of the tokens after the substituted token `a`.
substitute_shift(m1, a, spacing_fix) ==
    shift_line(m1, m1.tok[a].location, m1.tok[a].next, spacing_fix)

\* A substitution that looks the value up again and takes what it finds.
substitute_found_expanding(m, list, p, d, define) ==
    IF define = NullString THEN Outcome("next", m, list, p, d)
    ELSE IF hash_map_get_key(p.define_map, define) = NullString
    THEN Outcome("next",
                 substitute_shift([m EXCEPT !.tok[p.token].string = define], p.token,
                                  Len(m.tok[p.token].string) - Len(define)),
                 list, p, d)
    ELSE Outcome("next",
                 substitute_shift([m EXCEPT !.tok[p.token].string =
                                                hash_map_get_key(p.define_map, define)],
                                  p.token,
                                  Len(m.tok[p.token].string)
                                      - Len(hash_map_get_key(p.define_map, define))),
                 list, p, d)

\* The substitution after the lookup gave `define`.
substitute_found(m, list, p, d, define) ==
    IF define = NullString THEN Outcome("next", m, list, p, d)
    ELSE Outcome("next",
                 substitute_shift([m EXCEPT !.tok[p.token].string = define], p.token,
                                  Len(m.tok[p.token].string) - Len(define)),
                 list, p, d)

\* The branch of a token that is no directive: the lookup and the
\* substitution.
substitute(m, list, p, d) ==
    IF m.tok[p.token].string = NullString THEN Outcome("segfault", m, list, p, d)
    ELSE substitute_found(m, list, p, d, hash_map_get_key(p.define_map, m.tok[p.token].string))

\* The body of the driver's for loop for the token p.token (not NULL).
preprocess_token(m, list, p, d, files) ==
    LET t == m.tok[p.token] IN
    IF t.is_directive THEN
        IF t.string = Str_include THEN include_begin(m, list, p, d, files)
        ELSE IF t.string = Str_define THEN define_directive(m, list, p, d)
        ELSE Outcome("next", m, list, p, d)
    ELSE substitute(m, list, p, d)

(***************************************************************************)
(* The program: main                                                       *)
(***************************************************************************)
\* args->input_file
input_file == <<"d", "/", "a", ".", "c">>

TkIdle == [tokenize_file_enter(<<>>, NULL, "none") EXCEPT !.mode = "idle"]
PpIdle == [token |-> NULL, file_location |-> <<>>, file_name |-> <<>>,
           define_map |-> new_hash_map(define_map_size, define_map_seed)]

\* The state in which main starts, for the files `files` and the flag `keep`.
Start(files, keep) ==
    /\ fs = files
    /\ keep_comments = keep
    /\ pc = "main"
    /\ mem = EmptyMem
    /\ token_list = EmptyList
    /\ tk = TkIdle
    /\ pp = PpIdle
    /\ file_vector = <<>>
    /\ counts = [lines |-> -1, comments |-> -1]
    /\ out = NoFile
    /\ diag = <<>>

\* Bounds of the exploration: a run of the tokenizer that does not end is
\* followed until a token string or the heap reaches these sizes.
MaxString == 8
MaxTokens == 32
MaxLine == 8
MaxColumn == 40

\* main, up to the fopen of tokenize_file(file_vector[0]).
MainTokenize ==
    /\ pc = "main"
    /\ file_vector' = <<input_file>>
    /\ IF input_file \in DOMAIN fs
       THEN /\ tk' = tokenize_file_enter(input_file, 1, "main")
            /\ mem' = fopen(mem, input_file)
            /\ pc' = "tokenize_file"
            /\ diag' = diag
       ELSE /\ tk' = tk
            /\ mem' = mem
            /\ pc' = "exit_failure"
            /\ diag' = Append(diag, <<"Could not open file", input_file>>)
    /\ UNCHANGED <<fs, keep_comments, token_list, pp, counts, out>>

\* The call is followed while it is within the bounds of the exploration.
WithinBounds(t, m) ==
    /\ Len(t.token_string) < MaxString
    /\ m.brk < MaxTokens
    /\ t.location.line < MaxLine
    /\ t.location.column < MaxColumn

\* The call goes on with the locals and the heap the step gave.
TokenizeOutcome(r) ==
    /\ tk' = r.tk
    /\ mem' = r.mem

\* One step of the running tokenize_file call.
TokenizeStep ==
    /\ pc = "tokenize_file"
    /\ tk.mode \notin {"done", "idle"}
    /\ WithinBounds(tk, mem)
    /\ TokenizeOutcome(TokStep(fs[tk.path], tk, mem))
    /\ UNCHANGED <<fs, keep_comments, pc, token_list, pp, file_vector, counts, out, diag>>

\* tokenize_file returns to main.
TokenizeReturn ==
    /\ pc = "tokenize_file"
    /\ tk.mode = "done"
    /\ tk.ret = "main"
    /\ token_list' = tk.list
    /\ tk' = [tk EXCEPT !.mode = "idle"]
    /\ pc' = "counts"
    /\ UNCHANGED <<fs, keep_comments, mem, pp, file_vector, counts, out, diag>>

\* Counts that are taken after the deletion of the comments.
PrintCountsAfterDeletion ==
    /\ pc = "counts"
    /\ counts' = IF keep_comments
                 THEN [lines |-> count_non_empty_lines(mem, token_list),
                       comments |-> count_comments(mem, token_list)]
                 ELSE [lines |-> count_non_empty_lines(delete_comments(mem, token_list).mem,
                                                       delete_comments(mem, token_list).list),
                       comments |-> count_comments(delete_comments(mem, token_list).mem,
                                                   delete_comments(mem, token_list).list)]
    /\ pc' = "delete_comments"
    /\ UNCHANGED <<fs, keep_comments, mem, token_list, tk, pp, file_vector, out, diag>>

\* The two lines main prints about the input file.
PrintCounts ==
    /\ pc = "counts"
    /\ counts' = [lines |-> count_non_empty_lines(mem, token_list),
                  comments |-> count_comments(mem, token_list)]
    /\ pc' = "delete_comments"
    /\ UNCHANGED <<fs, keep_comments, mem, token_list, tk, pp, file_vector, out, diag>>

\* if (!args->keep_comments) delete_comments(token_list)
DeleteComments ==
    /\ pc = "delete_comments"
    /\ LET r == IF keep_comments THEN [mem |-> mem, list |-> token_list]
                ELSE delete_comments(mem, token_list)
       IN /\ mem' = r.mem
          /\ token_list' = r.list
    /\ pc' = "preprocess_token_list"
    /\ UNCHANGED <<fs, keep_comments, tk, pp, file_vector, counts, out, diag>>

\* preprocess_token_list up to its for loop.
PreprocessEnter ==
    /\ pc = "preprocess_token_list"
    /\ IF token_list.front_token = NULL
       THEN /\ pc' = "write"
            /\ pp' = pp
       ELSE /\ pc' = "preprocess_loop"
            /\ pp' = [PpIdle EXCEPT
                         !.token = token_list.front_token,
                         !.file_location = file_location_of(
                             file_vector[mem.tok[token_list.front_token].location.file_name])]
    /\ UNCHANGED <<fs, keep_comments, mem, token_list, tk, file_vector, counts, out, diag>>

\* for (...; token = token->next): the step to the next token after an
\* iteration that ended with `token` in hand; NULL has no next.
LoopNext(o) ==
    IF o.pp.token = NULL
    THEN /\ pc' = "segfault"
         /\ pp' = o.pp
    ELSE /\ pc' = "preprocess_loop"
         /\ pp' = [o.pp EXCEPT !.token = o.mem.tok[o.pp.token].next]

\* The driver goes on after an iteration handed back o.
PreprocessOutcome(o) ==
    /\ mem' = IF o.status = "tokenize" THEN fopen(o.mem, o.pp.file_name) ELSE o.mem
    /\ token_list' = o.list
    /\ diag' = o.diag
    /\ CASE o.status = "next" ->
              /\ LoopNext(o)
              /\ UNCHANGED <<tk, file_vector>>
         [] o.status = "tokenize" ->
              /\ pp' = o.pp
              /\ file_vector' = Append(file_vector, o.pp.file_name)
              /\ tk' = tokenize_file_enter(o.pp.file_name, Len(file_vector) + 1, "include")
              /\ pc' = "tokenize_file"
         [] OTHER ->
              /\ pp' = o.pp
              /\ pc' = o.status
              /\ UNCHANGED <<tk, file_vector>>

\* One iteration of the driver's loop; an include that resolves goes on in
\* tokenize_file.
PreprocessToken ==
    /\ pc = "preprocess_loop"
    /\ pp.token # NULL
    /\ PreprocessOutcome(preprocess_token(mem, token_list, pp, diag, fs))
    /\ UNCHANGED <<fs, keep_comments, counts, out>>

\* The driver goes on after the splice handed back o.
SpliceOutcome(o) ==
    /\ mem' = o.mem
    /\ token_list' = o.list
    /\ IF o.status = "next" THEN LoopNext(o)
       ELSE /\ pp' = o.pp
            /\ pc' = o.status

\* tokenize_file returns to the include branch, which splices the list in.
IncludeSplice ==
    /\ pc = "tokenize_file"
    /\ tk.mode = "done"
    /\ tk.ret = "include"
    /\ SpliceOutcome(include_end(mem, token_list, pp, diag, tk.list))
    /\ tk' = [tk EXCEPT !.mode = "idle"]
    /\ UNCHANGED <<fs, keep_comments, file_vector, counts, out, diag>>

\* The driver's loop has reached the end of the list.
PreprocessReturn ==
    /\ pc = "preprocess_loop"
    /\ pp.token = NULL
    /\ pc' = "write"
    /\ UNCHANGED <<fs, keep_comments, mem, token_list, tk, pp, file_vector, counts, out, diag>>

\* write_token_list_to_file(token_list, args->output_file)
WriteTokenList ==
    /\ pc = "write"
    /\ out' = write_token_list_to_file(mem, token_list)
    /\ pc' = "delete_token_list"
    /\ UNCHANGED <<fs, keep_comments, mem, token_list, tk, pp, file_vector, counts, diag>>

\* delete_token_list(token_list) and exit(EXIT_SUCCESS)
DeleteTokenList ==
    /\ pc = "delete_token_list"
    /\ IF token_list.front_token = NULL
       THEN /\ pc' = "segfault"
            /\ mem' = mem
       ELSE LET r == delete_token_list_from(mem, token_list.front_token)
            IN /\ pc' = IF r.status = "ok" THEN "exit_success" ELSE r.status
               /\ mem' = r.mem
    /\ UNCHANGED <<fs, keep_comments, token_list, tk, pp, file_vector, counts, out, diag>>

Next ==
    \/ MainTokenize
    \/ TokenizeStep
    \/ TokenizeReturn
    \/ PrintCounts
    \/ DeleteComments
    \/ PreprocessEnter
    \/ PreprocessToken
    \/ IncludeSplice
    \/ PreprocessReturn
    \/ WriteTokenList
    \/ DeleteTokenList

(***************************************************************************)
(* Input files                                                             *)
(***************************************************************************)
\* The file system holding `a` as the input file and `b` as d/b.c.
Files1(a) == input_file :> a
included_file == <<"d", "/", "b", ".", "c">>
Files2(a, b) == (input_file :> a) @@ (included_file :> b)

\* int x; // note\n#define N 5\nint y = N;
Text_scenario == <<"i", "n", "t", " ", "x", ";", " ", "/", "/", " ", "n", "o", "t", "e", LF, "#", "d", "e", "f", "i", "n", "e", " ", "N", " ", "5", LF, "i", "n", "t", " ", "y", " ", "=", " ", "N", ";">>

\* #include "b.c"\n
Text_include_line == <<"#", "i", "n", "c", "l", "u", "d", "e", " ", DQ, "b", ".", "c", DQ, LF>>

\* int x;
Text_int_x == <<"i", "n", "t", " ", "x", ";">>

\* int y;\n
Text_int_y == <<"i", "n", "t", " ", "y", ";", LF>>

\* #define 
Text_define_ == <<"#", "d", "e", "f", "i", "n", "e", " ">>

\* Names and values of macros.
Text_FOO == <<"F", "O", "O">>
Text_bar == <<"b", "a", "r">>
Text_N == <<"N">>
Text_M == <<"M">>
Text_G == <<"G">>
Text_1 == <<"1">>
Text_2 == <<"2">>
Text_5 == <<"5">>
Text_7 == <<"7">>

\* #define n v\n
DefineLine(n, v) == Text_define_ \o n \o <<" ">> \o v \o <<LF>>

\* n + n;
UseTwice(n) == n \o <<" ", "+", " ">> \o n \o <<";">>

\* x = 
Text_x_is == <<"x", " ", "=", " ">>

\* n;\n
UseLine(n) == n \o <<";", LF>>

\* int x = n;\n
Text_int_x_is(n) == <<"i", "n", "t", " ", "x", " ", "=", " ">> \o n \o <<";", LF>>

\* int z; // c\n
Text_int_z_comment == <<"i", "n", "t", " ", "z", ";", " ", "/", "/", " ", "c", LF>>

\* int x; /* c */\n
Text_int_x_comment == <<"i", "n", "t", " ", "x", ";", " ", "/", "*", " ", "c", " ", "*", "/", LF>>

\* Nothing, or a line between a directive and what follows it.
Fillers == {<<>>, Text_int_y}

\* A define and, later, two uses of its name on one line, the first use at
\* the start of the line or not.
DefineUseTexts ==
    {DefineLine(n, v) \o f \o lead \o UseTwice(n) :
        n \in {Text_FOO, Text_N}, v \in {Text_bar, Text_5}, f \in Fillers,
        lead \in {<<>>, Text_x_is}}

\* A name defined twice, used after each define.
RedefineTexts ==
    {DefineLine(Text_N, Text_1) \o f1 \o UseLine(Text_N)
         \o DefineLine(Text_N, Text_2) \o f2 \o UseLine(Text_N) :
        f1 \in Fillers, f2 \in Fillers}

\* Files that include d/b.c once, at the start, after a line or after a
\* define without a value, with or without comments.
IncludeFiles ==
    {Files2(pre \o Text_include_line \o post, b) :
        pre \in {<<>>, Text_int_y, Text_define_ \o Text_G \o <<LF>>},
        post \in {<<>>, Text_int_z_comment},
        b \in {Text_int_x, Text_int_x_comment}}

\* A define before the include that the included file uses, and a define in
\* the included file that the including file uses after the include.
CrossDefineFiles ==
    {Files2(DefineLine(Text_N, Text_5) \o f \o Text_include_line \o Text_int_x_is(Text_M),
            DefineLine(Text_M, Text_7) \o Text_int_x_is(Text_N)) :
        f \in Fillers}

Scenarios ==
    {Files1(Text_scenario)}
        \cup {Files1(t) : t \in DefineUseTexts \cup RedefineTexts}
        \cup IncludeFiles
        \cup CrossDefineFiles

Init == \E files \in Scenarios, keep \in BOOLEAN : Start(files, keep)

Spec == Init /\ [][Next]_vars

\* Every text of at most n characters of the set A.
TextsUpTo(A, n) == UNION {[1..k -> A] : k \in 0..n}

\* The program without the include branch's return, for inputs that hold
\* no include directive.
NextFile ==
    \/ MainTokenize
    \/ TokenizeStep
    \/ TokenizeReturn
    \/ PrintCounts
    \/ DeleteComments
    \/ PreprocessEnter
    \/ PreprocessToken
    \/ PreprocessReturn
    \/ WriteTokenList
    \/ DeleteTokenList

(***************************************************************************)
(* The character reader on its own: f_peek_char and f_read_char called at  *)
(* any position of any file, in any order.                                 *)
(***************************************************************************)
ReaderChars == {"a", BSL, LF, CR}
MaxReaderLen == 4

InitReader ==
    \E t \in TextsUpTo(ReaderChars, MaxReaderLen) :
        \E p \in 0..Len(t) :
            /\ fs = Files1(t)
            /\ keep_comments = FALSE
            /\ pc = "reader"
            /\ mem = fopen(EmptyMem, input_file)
            /\ token_list = EmptyList
            /\ tk = [tokenize_file_enter(input_file, 1, "none") EXCEPT !.pos = p]
            /\ pp = PpIdle
            /\ file_vector = <<input_file>>
            /\ counts = [lines |-> -1, comments |-> -1]
            /\ out = NoFile
            /\ diag = <<>>

\* ch = f_peek_char(ifs)
ReaderPeek ==
    /\ pc = "reader"
    /\ LET r == f_peek_char(fs[tk.path], tk.pos)
       IN tk' = [tk EXCEPT !.ch = r.ch, !.pos = r.pos]
    /\ UNCHANGED <<fs, keep_comments, pc, mem, token_list, pp, file_vector, counts, out, diag>>

\* f_read_char(ifs, &ch, &location)
ReaderRead ==
    /\ pc = "reader"
    /\ tk.location.line < MaxLine
    /\ tk.location.column < MaxColumn
    /\ LET r == f_read_char(fs[tk.path], tk.pos, tk.location)
       IN tk' = [tk EXCEPT !.ch = r.ch, !.pos = r.pos, !.location = r.location]
    /\ UNCHANGED <<fs, keep_comments, pc, mem, token_list, pp, file_vector, counts, out, diag>>

NextReader == ReaderPeek \/ ReaderRead

SpecReader == InitReader /\ [][NextReader]_vars

\* C9: f_peek_char leaves the stream position where it was and does not
\* change the location, whatever the file and the position.
C9_PeekLeavesPosition ==
    [][ReaderPeek => (tk'.pos = tk.pos /\ tk'.location = tk.location)]_vars

\* The line terminator that starts right after stream position p: how many
\* characters it has (CR LF two, a lone CR or LF one, anything else none).
TerminatorLen(content, p) ==
    IF p >= Len(content) THEN 0
    ELSE IF content[p + 1] = CR
         THEN (IF p + 1 < Len(content) /\ content[p + 2] = LF THEN 2 ELSE 1)
    ELSE IF content[p + 1] = LF THEN 1
    ELSE 0

\* C11: f_read_char never gives CR; a read that starts at a lone CR or at a
\* CR LF pair gives one LF, consumes the characters of that line terminator
\* and no other, and increments the line once.
C11_ReadNormalizesLineEndings ==
    [][ReaderRead =>
        /\ tk'.ch # CR
        /\ (tk.pos < Len(fs[tk.path]) /\ fs[tk.path][tk.pos + 1] = CR) =>
              /\ tk'.ch = LF
              /\ tk'.pos = tk.pos + TerminatorLen(fs[tk.path], tk.pos)
              /\ tk'.location.line = tk.location.line + 1
              /\ tk'.location.column = 0]_vars

\* C12: at every stream position the character f_peek_char gives is the
\* character the f_read_char called right after it gives.
C12_PeekAgreesWithRead ==
    [][ReaderPeek =>
        f_read_char(fs[tk.path], tk'.pos, tk'.location).ch = tk'.ch]_vars

(***************************************************************************)
(* tokenize_file on its own, on files that hold continued lines.           *)
(***************************************************************************)
ContChars == {"a", BSL, LF, CR, "/", "*"}
MaxContLen == 4

InitCont ==
    \E t \in TextsUpTo(ContChars, MaxContLen) : Start(Files1(t), FALSE)

NextTok ==
    \/ MainTokenize
    \/ TokenizeStep
    \/ TokenizeReturn

SpecCont == InitCont /\ [][NextTok]_vars

\* The call tokenize_file(path) run from its first step to its return, or
\* for `fuel` steps or up to the bounds of the exploration when it has not
\* returned by then.
RECURSIVE RunTok(_, _, _, _)
RunTokNext(content, r, fuel) == RunTok(content, r.tk, r.mem, fuel)

RunTok(content, t, m, fuel) ==
    IF t.mode = "done" \/ fuel = 0 \/ ~WithinBounds(t, m)
    THEN TkMem(t, m)
    ELSE RunTokNext(content, TokStep(content, t, m), fuel - 1)

MaxFuel == 128

\* The token texts tokenize_file gives for a file of this content.
RawOf(content) ==
    RunTok(content, tokenize_file_enter(input_file, 1, "main"), EmptyMem, MaxFuel)

TextsOfRun(r) == [done |-> r.tk.mode = "done", texts |-> Texts(r.mem, r.tk.list)]

TokenTextsOf(content) == TextsOfRun(RawOf(content))

\* The text without its continuations: every backslash that is directly
\* followed by LF, CR LF or CR is taken out with that line terminator.
RECURSIVE Strip(_)
Strip(s) ==
    IF s = <<>> THEN <<>>
    ELSE IF s[1] = BSL /\ Len(s) >= 2 /\ s[2] = LF
         THEN Strip(SubSeq(s, 3, Len(s)))
    ELSE IF s[1] = BSL /\ Len(s) >= 3 /\ s[2] = CR /\ s[3] = LF
         THEN Strip(SubSeq(s, 4, Len(s)))
    ELSE IF s[1] = BSL /\ Len(s) >= 2 /\ s[2] = CR
         THEN Strip(SubSeq(s, 3, Len(s)))
    ELSE <<s[1]>> \o Strip(Tail(s))

\* C10: a file tokenizes to the same token texts as the file without its
\* continuations (backslash + line terminator), wherever and however often
\* they stand, two in a row included.  Stated for the files in which taking
\* the continuations out leaves no backslash before a line terminator.
C10_ContinuationsTransparent ==
    (pc = "counts" /\ Strip(Strip(fs[input_file])) = Strip(fs[input_file])
                   /\ TokenTextsOf(Strip(fs[input_file])).done)
        => Texts(mem, token_list) = TokenTextsOf(Strip(fs[input_file])).texts

(***************************************************************************)
(* The whole program on files without comments and directives.             *)
(***************************************************************************)
RTChars == {"a", ";", " ", TAB, LF, CR, DQ}
MaxRTLen == 4

InitRT ==
    \E t \in TextsUpTo(RTChars, MaxRTLen) : Start(Files1(t), FALSE)

SpecRT == InitRT /\ [][NextFile]_vars

\* The text with every CR LF and every CR rewritten as LF.
RECURSIVE CrLfToLf(_)
CrLfToLf(s) ==
    IF s = <<>> THEN <<>>
    ELSE IF s[1] = CR /\ Len(s) >= 2 /\ s[2] = LF
         THEN <<LF>> \o CrLfToLf(SubSeq(s, 3, Len(s)))
    ELSE IF s[1] = CR THEN <<LF>> \o CrLfToLf(Tail(s))
    ELSE <<s[1]>> \o CrLfToLf(Tail(s))

\* Neither a comment opener nor a '#' nor a backslash stands in the text.
PlainText(s) ==
    /\ \A i \in 1..Len(s) : s[i] \notin {"#", BSL}
    /\ \A i \in 1..(Len(s) - 1) : ~(s[i] = "/" /\ s[i + 1] \in {"/", "*"})

\* Every string and character literal of the text is closed before the end
\* of its line; `lit` is the quote of the literal the text starts in, or NUL.
RECURSIVE LiteralsClosed(_, _)
LiteralsClosed(s, lit) ==
    IF s = <<>> THEN lit = NUL
    ELSE IF lit # NUL
         THEN /\ s[1] \notin {LF, CR}
              /\ LiteralsClosed(Tail(s), IF s[1] = lit THEN NUL ELSE lit)
    ELSE LiteralsClosed(Tail(s), IF s[1] \in {DQ, SQ} THEN s[1] ELSE NUL)

\* The layout the text keeps: line terminators become LF, what stands before
\* the first token goes, blanks between two tokens of a line become spaces,
\* blanks at the end of a line go, literals and comments stay as they are,
\* and one LF ends the text.  st = [lit, nl, sp, started]: the quote of the
\* open literal or the opener of the open comment, the line terminators and
\* blanks seen since the last token, and whether a token has been seen.
RECURSIVE LayoutFrom(_, _, _)
LayoutFrom(s, st, acc) ==
    IF s = <<>> THEN Append(acc, LF)
    ELSE
        LET c == s[1]
            rest == Tail(s)
        IN IF st.lit = "//"
           THEN IF c \in {LF, CR} THEN LayoutFrom(s, [st EXCEPT !.lit = NUL], acc)
                ELSE LayoutFrom(rest, st, Append(acc, c))
           ELSE IF st.lit = "/*"
           THEN IF c = "*" /\ rest # <<>> /\ rest[1] = "/"
                THEN LayoutFrom(Tail(rest), [st EXCEPT !.lit = NUL], acc \o <<"*", "/">>)
                ELSE IF c = CR
                THEN LayoutFrom(IF rest # <<>> /\ rest[1] = LF THEN Tail(rest) ELSE rest,
                                st, Append(acc, LF))
                ELSE LayoutFrom(rest, st, Append(acc, c))
           ELSE IF st.lit # NUL
           THEN LayoutFrom(rest, [st EXCEPT !.lit = IF c = st.lit THEN NUL ELSE st.lit],
                           Append(acc, c))
           ELSE IF c \in {LF, CR}
           THEN LayoutFrom(IF c = CR /\ rest # <<>> /\ rest[1] = LF THEN Tail(rest) ELSE rest,
                           [st EXCEPT !.nl = @ + 1, !.sp = 0], acc)
           ELSE IF isspace(c)
           THEN LayoutFrom(rest, [st EXCEPT !.sp = @ + 1], acc)
           ELSE IF c = "/" /\ rest # <<>> /\ rest[1] \in {"/", "*"}
           THEN LayoutFrom(Tail(rest),
                           [lit |-> IF rest[1] = "/" THEN "//" ELSE "/*",
                            nl |-> 0, sp |-> 0, started |-> TRUE],
                           (IF st.started
                            THEN acc \o Repeat(LF, st.nl) \o Repeat(" ", st.sp)
                            ELSE acc) \o <<c, rest[1]>>)
           ELSE LayoutFrom(rest,
                           [lit |-> IF c \in {DQ, SQ} THEN c ELSE NUL,
                            nl |-> 0, sp |-> 0, started |-> TRUE],
                           (IF st.started
                            THEN acc \o Repeat(LF, st.nl) \o Repeat(" ", st.sp)
                            ELSE acc) \o <<c>>)

Layout(s) == LayoutFrom(s, [lit |-> NUL, nl |-> 0, sp |-> 0, started |-> FALSE], <<>>)

\* C1 as stated: for a text without comments and directives the output file
\* is the text, character for character, once CR LF and CR are LF.
C1_RoundTripIdentity ==
    (pc = "exit_success" /\ PlainText(fs[input_file]))
        => out = CrLfToLf(fs[input_file])

\* C1, amended: for a text without comments, directives and backslashes
\* whose literals are closed on their line, the text written is the text's
\* layout: LF line ends, nothing before the first token, spaces for the
\* blanks between tokens, no blanks at line ends, one final LF.
C1_RoundTripLayout ==
    (out # NoFile /\ PlainText(fs[input_file]) /\ LiteralsClosed(fs[input_file], NUL))
        => out = Layout(fs[input_file])

\* A finished run on a text with a tab between two tokens, the second
\* one a closed literal (C1).
C1_Witness ==
    /\ pc = "exit_success"
    /\ PlainText(fs[input_file])
    /\ LiteralsClosed(fs[input_file], NUL)
    /\ Len(fs[input_file]) >= 3
    /\ fs[input_file][1] = "a"
    /\ fs[input_file][2] = TAB
    /\ fs[input_file][3] = DQ
    /\ out = Layout(fs[input_file])

(***************************************************************************)
(* Properties of the whole program on the scenarios of Spec.               *)
(***************************************************************************)
\* The addresses of the list the tokenizer run r built, front to back.
RawChain(r) == Chain(r.mem, r.tk.list.front_token)

\* The tokens that are in the token list now.
ListSet == {Tokens(mem, token_list)[i] : i \in 1..Len(Tokens(mem, token_list))}

\* The texts of the tokens of file number f from token a on, in list order.
RECURSIVE TextsOfFile(_, _, _)
TextsOfFile(m, a, f) ==
    IF a = NULL THEN <<>>
    ELSE IF m.tok[a].location.file_name = f /\ m.tok[a].string # NullString
    THEN <<m.tok[a].string>> \o TextsOfFile(m, m.tok[a].next, f)
    ELSE TextsOfFile(m, m.tok[a].next, f)

\* The program has ended in a crash or with a failure status.
Crashed == pc \in {"segfault", "abort", "exit_failure"}

\* int x; \nint y = 5;
Text_scenario_stated == <<"i", "n", "t", " ", "x", ";", " ", LF, "i", "n", "t", " ", "y", " ", "=", " ", "5", ";">>

\* int x;\n\nint y = 5;\n
Text_scenario_written == <<"i", "n", "t", " ", "x", ";", LF, LF, "i", "n", "t", " ", "y", " ", "=", " ", "5", ";", LF>>

InScenario == fs = Files1(Text_scenario) /\ ~keep_comments

\* C2 as stated: on `int x; // note\n#define N 5\nint y = N;` without
\* keep_comments the program reports 3 non-empty lines and 1 comment, writes
\* `int x; \nint y = 5;` and ends without a crash.
C2_ScenarioAsStated ==
    InScenario =>
        /\ ~Crashed
        /\ pc = "exit_success" =>
               /\ counts = [lines |-> 3, comments |-> 1]
               /\ out = Text_scenario_stated

\* C2, amended: on that input the program reports 3 non-empty lines and 1
\* comment, writes `int x;\n\nint y = 5;\n` (the line of the define stays
\* as an empty line, nothing is left of the comment, one LF ends the file),
\* and runs without a crash: no state of the run is a crash, and the only
\* loop that could go on for ever, the tokenizer's, never leaves the bounds
\* within which it is followed.
C2_ScenarioWritten ==
    InScenario =>
        /\ ~Crashed
        /\ pc = "tokenize_file" => (tk.mode = "done" \/ WithinBounds(tk, mem))
        /\ pc \in {"delete_comments", "exit_success"} =>
               counts = [lines |-> 3, comments |-> 1]
        /\ pc \in {"delete_token_list", "exit_success"} => out = Text_scenario_written

\* The scenario of C2 has run to its end.
C2_Witness ==
    /\ InScenario
    /\ pc = "exit_success"
    /\ counts = [lines |-> 3, comments |-> 1]
    /\ out = Text_scenario_written

DefineUseFiles == {Files1(t) : t \in DefineUseTexts}

\* The uses of `name` among the tokens `body` that stand before token b on
\* its line, in the heap rm of the tokenizer.
UsesBefore(rm, body, name, b) ==
    {a \in body : /\ rm.tok[a].string = name
                  /\ same_line(rm.tok[a].location, rm.tok[b].location)
                  /\ rm.tok[a].location.column < rm.tok[b].location.column}

\* Token b is now as C3 says: it has the value's text where it was a use,
\* and it has moved by the difference of the lengths for each use before it.
TokenAfterDefine(rm, body, name, value, b) ==
    /\ b \in ListSet
    /\ mem.tok[b].string = (IF rm.tok[b].string = name THEN value ELSE rm.tok[b].string)
    /\ mem.tok[b].location.column =
           rm.tok[b].location.column
               + (Len(value) - Len(name)) * Cardinality(UsesBefore(rm, body, name, b))

\* rc is the tokenizer's list of `#define name value` and the lines after.
TokensAfterDefine(rm, rc) ==
    \A i \in 5..Len(rc) :
        TokenAfterDefine(rm, {rc[j] : j \in 5..Len(rc)},
                         rm.tok[rc[3]].string, rm.tok[rc[4]].string, rc[i])

\* C3: after `#define FOO bar`, a later line with FOO twice has bar at
\* both places once preprocessing is done, and every token after a replaced
\* one on that line has moved by strlen("bar") - strlen("FOO") columns for
\* each replacement before it.
C3_BothUsesReplaced ==
    (fs \in DefineUseFiles /\ pc = "write")
        => TokensAfterDefine(RawOf(fs[input_file]).mem, RawChain(RawOf(fs[input_file])))

IncludeDirectiveAt(rm, rc) ==
    CHOOSE i \in 2..(Len(rc) - 1) :
        rm.tok[rc[i]].is_directive /\ rm.tok[rc[i]].string = Str_include

\* The list `fin` holds the tokens of the included file, all of them and in
\* order, where the directive stood, whose tokens rc[i-1], rc[i], rc[i+1]
\* are gone.  The tokenizer's tokens of the including file are rc.
IncludedInPlace(rc, i, fin) ==
    /\ \A k \in 1..Len(fin) : fin[k] \notin {rc[i - 1], rc[i], rc[i + 1]}
    /\ TextsOfFile(mem, token_list.front_token, 2) = TokenTextsOf(fs[included_file]).texts
    /\ \A k, j \in 1..Len(fin) :
           mem.tok[fin[k]].location.file_name = 2 =>
               /\ fin[j] < rc[i - 1] => j < k
               /\ (fin[j] > rc[i + 1] /\ fin[j] <= rc[Len(rc)]) => j > k

\* C4: when the input file holds `#include "b.c"` and b.c has tokens, then
\* after preprocessing the list holds the whole token sequence of b.c, in
\* order, at the place of the directive, and none of the directive's three
\* tokens.
C4_IncludeSpliced ==
    (fs \in IncludeFiles /\ pc = "write")
        => IncludedInPlace(RawChain(RawOf(fs[input_file])),
                           IncludeDirectiveAt(RawOf(fs[input_file]).mem,
                                              RawChain(RawOf(fs[input_file]))),
                           Tokens(mem, token_list))

HasCommentText(text) ==
    \E i \in 1..(Len(text) - 1) : text[i] = "/" /\ text[i + 1] \in {"/", "*"}

\* C5: without keep_comments no comment token is in the list after
\* preprocessing and no comment text is in the output, included files
\* included.
C5_NoCommentLeft ==
    ~keep_comments =>
        /\ pc \in {"write", "delete_token_list"} => \A a \in ListSet : ~mem.tok[a].is_comment
        /\ pc = "exit_success" => ~HasCommentText(out)

\* C7: a define of the input file that stands before `#include "b.c"`
\* reaches the identifiers of b.c, and a define of b.c reaches the tokens of
\* the input file after the directive: N of b.c has become 5, M of the
\* input file has become 7.
C7_DefinesCrossIncludes ==
    (fs \in CrossDefineFiles /\ pc = "write") =>
        /\ \A a \in ListSet : mem.tok[a].location.file_name = 2 => mem.tok[a].string # Text_N
        /\ \E a \in ListSet : mem.tok[a].location.file_name = 2 /\ mem.tok[a].string = Text_5
        /\ \A a \in ListSet : mem.tok[a].location.file_name = 1 => mem.tok[a].string # Text_M
        /\ \E a \in ListSet : mem.tok[a].location.file_name = 1 /\ mem.tok[a].string = Text_7

RedefineFiles == {Files1(t) : t \in RedefineTexts}

\* rc[j] is the `define` of a define directive with a name and a value.
IsDefineAt(rm, rc, j) ==
    /\ j + 2 <= Len(rc)
    /\ rm.tok[rc[j]].is_directive
    /\ rm.tok[rc[j]].string = Str_define

\* The define directives before rc[i] whose name is the text of rc[i].
DefinesBefore(rm, rc, i) ==
    {j \in 1..(i - 2) : IsDefineAt(rm, rc, j) /\ rm.tok[rc[j + 1]].string = rm.tok[rc[i]].string}

Last(S) == CHOOSE j \in S : \A k \in S : k <= j

\* rc[i] is a use of a name defined before it, and now it has the value of
\* the last define of that name before it.
UseHasLastValue(rm, rc, i) ==
    (rm.tok[rc[i]].is_identifier /\ DefinesBefore(rm, rc, i) # {}) =>
        /\ rc[i] \in ListSet
        /\ mem.tok[rc[i]].string = rm.tok[rc[Last(DefinesBefore(rm, rc, i)) + 2]].string

UsesHaveLastValue(rm, rc) == \A i \in 1..Len(rc) : UseHasLastValue(rm, rc, i)

PadChars == {"a", " ", LF}
MaxPad == 2

\* //c   /*c*/   /*c\n*/
CommentTexts ==
    {<<"/", "/", "c">>, <<"/", "*", "c", "*", "/">>, <<"/", "*", "c", LF, "*", "/">>}

InitComment ==
    \E before \in TextsUpTo(PadChars, MaxPad), after \in TextsUpTo(PadChars, MaxPad),
       c \in CommentTexts :
        Start(Files1(before \o c \o after), TRUE)

SpecComment == InitComment /\ [][NextFile]_vars

\* C6: with keep_comments every comment is written as it stands in the
\* input, at its line and column, and the tokens after it on its line are
\* written at their columns: the output is the layout of the input with its
\* comments in place (counted from the first token of the file).
C6_CommentsInPlace ==
    pc = "exit_success" => out = Layout(fs[input_file])

(***************************************************************************)
(* main up to the two counts it prints: tokenize_file, then                *)
(* count_non_empty_lines and count_comments on the list it returned.       *)
(***************************************************************************)
CountChars == {"a", " ", LF, CR, "/", "*", DQ}
MaxCountLen == 4

InitCount ==
    \E t \in TextsUpTo(CountChars, MaxCountLen) : Start(Files1(t), FALSE)

NextCount ==
    \/ MainTokenize
    \/ TokenizeStep
    \/ TokenizeReturn
    \/ PrintCounts

SpecCount == InitCount /\ [][NextCount]_vars

\* A token text that starts with // or /*.
IsCommentText(string) ==
    Len(string) >= 2 /\ string[1] = "/" /\ string[2] \in {"/", "*"}

CommentTextCount(texts) ==
    Cardinality({i \in 1..Len(texts) : IsCommentText(texts[i])})

\* C13: the number of comments main prints is the number of tokens of the
\* tokenizer's list whose first two characters are // or /*.
C13_CommentAccounting ==
    pc = "delete_comments" => counts.comments = CommentTextCount(Texts(mem, token_list))

C13_Witness ==
    /\ pc = "delete_comments"
    /\ counts.comments >= 1
    /\ Len(Tokens(mem, token_list)) > counts.comments

\* The line numbers of the tokens of a list, front to back.
LinesOf(m, list) ==
    [i \in 1..Len(Tokens(m, list)) |-> m.tok[Tokens(m, list)[i]].location.line]

NonDecreasing(lines) ==
    \A i \in 1..(Len(lines) - 1) : lines[i] <= lines[i + 1]

DistinctCount(lines) == Cardinality({lines[i] : i \in 1..Len(lines)})

\* The lines of an LF-terminated text that hold a character other than
\* whitespace; `seen` tells whether the line being read has held one.
RECURSIVE NonBlankLines(_, _)
NonBlankLines(s, seen) ==
    IF s = <<>> THEN (IF seen THEN 1 ELSE 0)
    ELSE IF s[1] = LF THEN (IF seen THEN 1 ELSE 0) + NonBlankLines(Tail(s), FALSE)
    ELSE NonBlankLines(Tail(s), seen \/ ~isspace(s[1]))

NoQuote(s) == \A i \in 1..Len(s) : s[i] \notin {DQ, SQ}

\* A line of the text that holds blanks and nothing else.
HasBlankLine(s) ==
    \E i \in 1..(Len(s) - 1) :
        s[i] = " " /\ s[i + 1] = LF /\ (i = 1 \/ s[i - 1] = LF)

\* C14: the number of non-empty lines main prints is the number of distinct
\* line numbers of the tokens of the tokenizer's list, the line numbers
\* never decrease along the list, and in a text without comments and
\* literals it is the number of lines that hold more than whitespace.
C14_LineAccounting ==
    pc = "delete_comments" =>
        /\ NonDecreasing(LinesOf(mem, token_list))
        /\ counts.lines = DistinctCount(LinesOf(mem, token_list))
        /\ (PlainText(fs[input_file]) /\ NoQuote(fs[input_file])) =>
               counts.lines = NonBlankLines(CrLfToLf(fs[input_file]), FALSE)

C14_Witness ==
    /\ pc = "delete_comments"
    /\ HasBlankLine(fs[input_file])
    /\ PlainText(fs[input_file])
    /\ counts.lines >= 1

(***************************************************************************)
(* The token list on its own: insert_token and delete_token_from_list      *)
(* called in any order, the deletion on any token of the list.             *)
(***************************************************************************)
MaxListTokens == 5
ListStrings == {<<"a">>, <<"#">>}

InitList ==
    /\ fs = Files1(<<>>)
    /\ keep_comments = FALSE
    /\ pc = "list"
    /\ mem = EmptyMem
    /\ token_list = EmptyList
    /\ tk = TkIdle
    /\ pp = PpIdle
    /\ file_vector = <<input_file>>
    /\ counts = [lines |-> -1, comments |-> -1]
    /\ out = NoFile
    /\ diag = <<>>

\* insert_token(token_list, new_token(string, location))
ListInsert ==
    /\ pc = "list"
    /\ mem.brk < MaxListTokens
    /\ \E string \in ListStrings :
           LET m1 == new_token(mem, string, [file_name |-> 1, line |-> 1, column |-> 1])
               r == insert_token(m1, token_list, m1.brk)
           IN /\ mem' = r.mem
              /\ token_list' = r.list
    /\ UNCHANGED <<fs, keep_comments, pc, tk, pp, file_vector, counts, out, diag>>

\* token = delete_token_from_list(token_list, token)
ListDelete ==
    /\ pc = "list"
    /\ \E a \in DOMAIN mem.tok :
           LET r == delete_token_from_list(mem, token_list, a)
           IN /\ mem' = r.mem
              /\ token_list' = r.list
              /\ pp' = [pp EXCEPT !.token = r.next]
    /\ UNCHANGED <<fs, keep_comments, pc, tk, file_vector, counts, out, diag>>

NextList == ListInsert \/ ListDelete

SpecList == InitList /\ [][NextList]_vars

\* A well-formed list: the front anchor is the first token, the back anchor
\* the last one reached along the next links, the first token has no prev,
\* and each token is the prev of its next.
Linked(m, list, chain) ==
    /\ (list.front_token = NULL) <=> (list.back_token = NULL)
    /\ chain # <<>> =>
          /\ list.back_token = chain[Len(chain)]
          /\ m.tok[chain[1]].prev = NULL
    /\ \A i \in 1..(Len(chain) - 1) : m.tok[chain[i + 1]].prev = chain[i]
    /\ \A i, j \in 1..Len(chain) : chain[i] = chain[j] => i = j

WellFormed(m, list) == Linked(m, list, Chain(m, list.front_token))

\* The sequence without its i-th element.
Without(chain, i) == SubSeq(chain, 1, i - 1) \o SubSeq(chain, i + 1, Len(chain))

IndexOf(chain, a) == CHOOSE i \in 1..Len(chain) : chain[i] = a

\* The deletion of the i-th token of `before`: the list after it is `before`
\* without that token, the token returned is its former successor.
DeletedAt(before, i) ==
    /\ Tokens(mem', token_list') = Without(before, i)
    /\ pp'.token = (IF i < Len(before) THEN before[i + 1] ELSE NULL)
    /\ \A j \in 1..Len(before) :
           j # i => mem'.tok[before[j]].string = mem.tok[before[j]].string

\* C15: whatever insertions and deletions came before, the list is
\* well-formed after each of them, and delete_token_from_list takes out the
\* token it is given and no other, returns that token's former successor
\* (NULL for the last token), and leaves the other tokens in their order.
C15_DeleteKeepsList ==
    [][/\ WellFormed(mem', token_list')
       /\ \A a \in DOMAIN mem.tok :
              a \notin DOMAIN mem'.tok =>
                  DeletedAt(Tokens(mem, token_list), IndexOf(Tokens(mem, token_list), a))]_vars

C15_Witness ==
    /\ pc = "list"
    /\ pp.token \in DOMAIN mem.tok
    /\ mem.tok[pp.token].prev # NULL
    /\ mem.tok[pp.token].next # NULL
    /\ mem.brk > Len(Tokens(mem, token_list))

\* Every token of the list that starts at `front` in m is a token of `chain`.
AllIn(m, front, chain) ==
    \A i \in 1..Len(Chain(m, front)) :
        \E j \in 1..Len(chain) : chain[j] = Chain(m, front)[i]

\* C16: when the include branch has spliced the included list in, wherever
\* the directive stood, the token list is well-formed (front anchor first,
\* back anchor last along the next links, prev and next consistent) and
\* every token of the included list is in it, once.
C16_SpliceKeepsList ==
    [][(pc = "tokenize_file" /\ tk.ret = "include" /\ pc' = "preprocess_loop") =>
          /\ WellFormed(mem', token_list')
          /\ AllIn(mem, tk.list.front_token, Tokens(mem', token_list'))]_vars

(***************************************************************************)
(* The program on files whose includes do not resolve: a system include,   *)
(* a quoted include of a file that is not there, and an input file that is *)
(* not there.                                                              *)
(***************************************************************************)
\* #include <b.c>\n
Text_include_sys == <<"#", "i", "n", "c", "l", "u", "d", "e", " ", "<", "b", ".", "c", ">", LF>>

\* What stands before the directive.
UnresolvedPre == {<<>>, Text_int_y, DefineLine(Text_N, Text_5) \o Text_int_y}

\* #define M 7\nint x = M;\n
Text_define_use_M == DefineLine(Text_M, Text_7) \o Text_int_x_is(Text_M)

\* What stands after the directive.
UnresolvedPost == {<<>>, Text_int_y, Text_int_x_is(Text_N), Text_define_use_M}

SysIncludeFiles ==
    {Files1(pre \o Text_include_sys \o post) : pre \in UnresolvedPre, post \in UnresolvedPost}

MissingIncludeFiles ==
    {Files1(pre \o Text_include_line \o post) : pre \in UnresolvedPre, post \in UnresolvedPost}

MissingInputFiles == {included_file :> Text_int_x}

InitUnresolved ==
    \E files \in SysIncludeFiles \cup MissingIncludeFiles \cup MissingInputFiles,
       keep \in BOOLEAN : Start(files, keep)

SpecUnresolved == InitUnresolved /\ [][NextFile]_vars

\* The driver is at an include directive; `a` is the directive's token.
IncludeAt(m, a) ==
    /\ a \in DOMAIN m.tok
    /\ m.tok[a].is_directive
    /\ m.tok[a].string = Str_include
    /\ m.tok[a].next # NULL

\* The token after the directive's token.
IncludeArg(m, a) == m.tok[m.tok[a].next]

\* The include's argument does not start with a double quote.
SysIncludeAt(m, a) == IncludeAt(m, a) /\ CharAt(IncludeArg(m, a).string, 0) # DQ

\* The include's argument is quoted and names a file that is not there.
MissingIncludeAt(m, a, file_location, files) ==
    /\ IncludeAt(m, a)
    /\ CharAt(IncludeArg(m, a).string, 0) = DQ
    /\ include_file_name(file_location, IncludeArg(m, a).string) \notin DOMAIN files

\* The list after the driver's loop for a file `pre`, system include,
\* define of M and use of M: the tokens before the define as tokenized,
\* the define gone, the use replaced.
SysThenDefineHandled(texts, pre) ==
    texts = TokenTextsOf(pre \o Text_include_sys).texts
                \o TokenTextsOf(Text_int_x_is(Text_7)).texts

\* C17: at an include whose argument does not start with a double quote the
\* driver emits a diagnostic, changes no token and no link, and goes on
\* with the token after the argument; directives and macro uses after it
\* are handled.
C17_SysIncludeSkipped ==
    [][/\ (pc = "preprocess_loop" /\ SysIncludeAt(mem, pp.token)) =>
              /\ mem' = mem
              /\ token_list' = token_list
              /\ diag' = Append(diag, <<"Could not find", IncludeArg(mem, pp.token).string>>)
              /\ pc' = "preprocess_loop"
              /\ pp'.token = IncludeArg(mem, pp.token).next
       /\ \A pre \in {<<>>, Text_int_y} :
              (pc' = "write" /\ fs[input_file] = pre \o Text_include_sys \o Text_define_use_M)
                  => SysThenDefineHandled(Texts(mem', token_list'), pre)]_vars

C17_Witness ==
    /\ pc = "write"
    /\ fs[input_file] = Text_int_y \o Text_include_sys \o Text_define_use_M
    /\ Len(diag) = 1
    /\ diag[1][1] = "Could not find"
    /\ \E i \in 1..Len(Texts(mem, token_list)) : Texts(mem, token_list)[i] = Text_7

\* C18: at a quoted include of a file that cannot be opened the driver
\* emits a diagnostic and goes on with its loop.
C18_MissingIncludeRecoverable ==
    [][(pc = "preprocess_loop" /\ MissingIncludeAt(mem, pp.token, pp.file_location, fs)) =>
          (pc' = "preprocess_loop" /\ Len(diag') > Len(diag))]_vars

\* C19: when tokenize_file cannot open its file, the input file or an
\* included one, the program ends with a failure status after a diagnostic;
\* the output file is written by the step after the driver's loop and by no
\* other, so a run that failed has written none.
C19_FatalOpenNoOutput ==
    [][/\ ((pc = "main" /\ input_file \notin DOMAIN fs)
              \/ (pc = "preprocess_loop"
                     /\ MissingIncludeAt(mem, pp.token, pp.file_location, fs))) =>
              /\ pc' = "exit_failure"
              /\ Len(diag') = Len(diag) + 1
              /\ diag'[Len(diag')][1] = "Could not open file"
       /\ pc' = "exit_failure" => out' = NoFile
       /\ out' # out => (pc = "write" /\ out = NoFile)]_vars

C19_Witness ==
    /\ pc = "exit_failure"
    /\ out = NoFile
    /\ mem.brk > 0
    /\ diag # <<>>
    /\ diag[Len(diag)][1] = "Could not open file"

(***************************************************************************)
(* The program on files whose macro names share a slot of the macro table. *)
(* With the table's size and seed QI and QJ hash to one slot, MP and OV to *)
(* another; QK shares its slot with none of them.                          *)
(***************************************************************************)
Text_QI == <<"Q", "I">>
Text_QJ == <<"Q", "J">>
Text_QK == <<"Q", "K">>
Text_MP == <<"M", "P">>
Text_OV == <<"O", "V">>

AliasPairs == {<<Text_QI, Text_QJ>>, <<Text_MP, Text_OV>>, <<Text_QI, Text_QK>>}
AliasFirstValues == {Text_1, Text_5}
AliasSecondValues == {Text_2, Text_7}

\* #define k1 v1\n#define k2 v2\nint x = k1;\n
AliasTwice(k1, v1, k2, v2) == DefineLine(k1, v1) \o DefineLine(k2, v2) \o Text_int_x_is(k1)

\* #define k1 v1\nint x = k2;\n
AliasOnce(k1, v1, k2) == DefineLine(k1, v1) \o Text_int_x_is(k2)

AliasFiles ==
    {Files1(AliasTwice(p[1], v1, p[2], v2)) :
        p \in AliasPairs, v1 \in AliasFirstValues, v2 \in AliasSecondValues}
    \cup {Files1(AliasOnce(p[1], v1, p[2])) : p \in AliasPairs, v1 \in AliasFirstValues}

InitAlias == \E files \in AliasFiles, keep \in BOOLEAN : Start(files, keep)

SpecAlias == InitAlias /\ [][NextFile]_vars

\* The token texts of `int x = v;`.
IntXIs(v) == << <<"i", "n", "t">>, <<"x">>, <<"=">>, v, <<";">> >>

SameSlot(map, k1, k2) == hash_map_hash(map, k1) = hash_map_hash(map, k2)

\* What the use of k1 is after define(k1, v1), define(k2, v2): v2 when the
\* names share a slot, v1 when they do not.
AfterTwice(map, k1, v1, k2, v2) == IF SameSlot(map, k1, k2) THEN v2 ELSE v1

\* What the use of the never-defined k2 is after define(k1, v1): v1 when the
\* names share a slot, k2 itself when they do not.
AfterOnce(map, k1, v1, k2) == IF SameSlot(map, k1, k2) THEN v1 ELSE k2

\* C20: two distinct names with the same slot of the macro table are one
\* entry: after define(k1, v1) and define(k2, v2) a use of k1 is replaced by
\* v2, and a use of a name that was never defined is replaced by the value
\* of the slot it hashes to when that slot is occupied.
C20_SlotAliasing ==
    pc = "write" =>
        \A p \in AliasPairs, v1 \in AliasFirstValues :
            /\ \A v2 \in AliasSecondValues :
                   fs[input_file] = AliasTwice(p[1], v1, p[2], v2) =>
                       Texts(mem, token_list)
                           = IntXIs(AfterTwice(pp.define_map, p[1], v1, p[2], v2))
            /\ fs[input_file] = AliasOnce(p[1], v1, p[2]) =>
                   Texts(mem, token_list) = IntXIs(AfterOnce(pp.define_map, p[1], v1, p[2]))

C20_Witness ==
    /\ pc = "write"
    /\ fs[input_file] = AliasTwice(Text_QI, Text_1, Text_QJ, Text_2)
    /\ SameSlot(pp.define_map, Text_QI, Text_QJ)
    /\ Texts(mem, token_list) = IntXIs(Text_2)

(***************************************************************************)
(* The program on files that include each other, or themselves.            *)
(***************************************************************************)
\* #include "a.c"\n
Text_include_a == <<"#", "i", "n", "c", "l", "u", "d", "e", " ", DQ, "a", ".", "c", DQ, LF>>

CycleFiles ==
    {Files2(pre \o Text_include_line \o post, Text_include_a \o Text_int_x) :
        pre \in {<<>>, Text_int_y}, post \in {<<>>, Text_int_y}}
    \cup {Files1(pre \o Text_include_a \o post) :
        pre \in {<<>>, Text_int_y}, post \in {<<>>, Text_int_y}}

InitCycle == \E files \in CycleFiles, keep \in BOOLEAN : Start(files, keep)

SpecCycle == InitCycle /\ [][Next]_vars

\* C21: with an include cycle (a.c includes b.c and b.c includes a.c, or
\* a.c includes itself) the driver never reaches the end of the token list:
\* the program never gets to write its output or to exit.
C21_CycleNeverEnds ==
    pc \notin {"write", "delete_token_list", "exit_success"}

\* C22: the stream tokenize_file opened is closed when it returns: at most
\* one input stream is open at any time, and none once the call has
\* returned and the program is past it.
C22_HandlesScoped ==
    /\ Len(mem.open) <= 1
    /\ pc \notin {"main", "tokenize_file"} => mem.open = <<>>

(***************************************************************************)
(* Argument parsing: argp_parse calls parse_opt once per option of the     *)
(* command line, in any order and any number of times, then once with      *)
(* ARGP_KEY_END.  argp_usage prints the usage and ends the process.        *)
(***************************************************************************)
ARGP_KEY_ARG == "ARGP_KEY_ARG"
ARGP_KEY_END == "ARGP_KEY_END"

\* What parse_opt hands back: the Arguments, the messages on stderr, and
\* whether parsing goes on ("ok"), is complete ("end") or argp_usage has
\* ended the process ("usage").
Parsed(status, a, d) == [status |-> status, args |-> a, diag |-> d]

\* The default output file: the input file's name with its last character
\* replaced by 'o'.
default_output_file(file) == SubSeq(file, 1, Len(file) - 1) \o <<"o">>

\* length <= 2 || input_file[length - 2] != '.' || input_file[length - 1] != 'c'
wrong_format(file) ==
    \/ Len(file) <= 2
    \/ file[Len(file) - 1] # "."
    \/ file[Len(file)] # "c"

\* ARGP_KEY_END after the test of the input file: the test of verbose and quiet.
parse_opt_end_flags(a, d) ==
    IF a.verbose /\ a.quiet
    THEN Parsed("usage", a, Append(d, <<"Cannot be verbose and quiet at the same time.">>))
    ELSE Parsed("end", a, d)

\* ARGP_KEY_END that takes any input file name.
parse_opt_end_any_name(a, d) ==
    IF a.input_file = NullString
    THEN Parsed("usage", a, Append(d, <<"No input file specified.">>))
    ELSE IF a.output_file = NullString
    THEN parse_opt_end_flags([a EXCEPT !.output_file = default_output_file(a.input_file)], d)
    ELSE parse_opt_end_flags(a, d)

\* ARGP_KEY_END
parse_opt_end(a, d) ==
    IF a.input_file = NullString
    THEN Parsed("usage", a, Append(d, <<"No input file specified.">>))
    ELSE IF wrong_format(a.input_file)
    THEN Parsed("usage", a, Append(d, <<"Wrong C input file format">>))
    ELSE IF a.output_file = NullString
    THEN parse_opt_end_flags([a EXCEPT !.output_file = default_output_file(a.input_file)], d)
    ELSE parse_opt_end_flags(a, d)

parse_opt(key, arg, a, d) ==
    CASE key = "v" -> Parsed("ok", [a EXCEPT !.verbose = TRUE], d)
      [] key \in {"q", "s"} -> Parsed("ok", [a EXCEPT !.quiet = TRUE], d)
      [] key = "c" -> Parsed("ok", [a EXCEPT !.keep_comments = TRUE], d)
      [] key = "i" -> Parsed("ok", [a EXCEPT !.input_file = arg], d)
      [] key = "o" -> Parsed("ok", [a EXCEPT !.output_file = arg], d)
      [] key = ARGP_KEY_ARG -> Parsed("usage", a, d)
      [] key = ARGP_KEY_END -> parse_opt_end(a, d)

\* The names given with -i and -o, the empty name included.
ArgNames ==
    {<<>>, <<"c">>, <<".", "c">>, <<"a", ".", "c">>, <<"a", ".", "h">>, <<"a", "b", "c">>,
     <<"d", "/", "a", ".", "c">>, <<"x", ".", "o">>}

ArgKeys == {"v", "q", "s", "c", "i", "o", ARGP_KEY_ARG, ARGP_KEY_END}

InitArgs ==
    /\ fs = Files1(<<>>)
    /\ keep_comments = FALSE
    /\ pc = "args_parse"
    /\ mem = EmptyMem
    /\ token_list = EmptyList
    /\ tk = TkIdle
    /\ pp = PpIdle
    /\ file_vector = <<>>
    /\ counts = [lines |-> -1, comments |-> -1]
    /\ out = NoFile
    /\ diag = <<>>

\* One call of parse_opt by argp_parse.
ArgsParsed(r) ==
    /\ mem' = [mem EXCEPT !.args = r.args]
    /\ diag' = r.diag
    /\ pc' = CASE r.status = "ok" -> "args_parse"
               [] r.status = "end" -> "main"
               [] r.status = "usage" -> "exit_usage"
    /\ keep_comments' = IF r.status = "end" THEN r.args.keep_comments ELSE keep_comments

ArgsParse ==
    /\ pc = "args_parse"
    /\ \E key \in ArgKeys, arg \in ArgNames : ArgsParsed(parse_opt(key, arg, mem.args, diag))
    /\ UNCHANGED <<fs, token_list, tk, pp, file_vector, counts, out>>

NextArgs == ArgsParse

SpecArgs == InitArgs /\ [][NextArgs]_vars

\* C23: parsing lets the program start only with an input file whose name
\* is longer than 2 characters and ends in .c, and not with both verbose
\* and quiet; the output file is then the one given, unchanged, or, when
\* none was given, the input file's name with its last character replaced
\* by o.
C23_ArgumentsValidated ==
    [][pc' = "main" =>
          /\ mem.args.input_file # NullString
          /\ Len(mem.args.input_file) > 2
          /\ SubSeq(mem.args.input_file, Len(mem.args.input_file) - 1,
                    Len(mem.args.input_file)) = <<".", "c">>
          /\ ~(mem.args.verbose /\ mem.args.quiet)
          /\ mem'.args.input_file = mem.args.input_file
          /\ mem'.args.output_file =
                 (IF mem.args.output_file # NullString THEN mem.args.output_file
                  ELSE SubSeq(mem.args.input_file, 1, Len(mem.args.input_file) - 1) \o <<"o">>)]_vars

C23_Witness ==
    /\ pc = "main"
    /\ mem.args.input_file = <<"d", "/", "a", ".", "c">>
    /\ mem.args.output_file = <<"d", "/", "a", ".", "o">>
    /\ mem.args.quiet
    /\ mem.args.keep_comments

\* C24: tokenize_file comes to the end of every finite file: a running
\* call has produced no more tokens than the file has characters and holds
\* no token string longer than the file, whatever the file ends with (a
\* backslash, or a backslash and a line terminator, included).
C24_TokenizationTerminates ==
    pc = "tokenize_file" =>
        /\ Len(Chain(mem, tk.list.front_token)) <= Len(fs[tk.path])
        /\ Len(tk.token_string) <= Len(fs[tk.path])

(***************************************************************************)
(* The driver on files of define lines and of lines that use the names.    *)
(***************************************************************************)
Text_A == <<"A">>
Text_B == <<"B">>
Text_C == <<"C">>

\* 5 + 1
Text_5_plus_1 == <<"5", " ", "+", " ", "1">>

\* #define n\n
DefineEmpty(n) == Text_define_ \o n \o <<LF>>

DefineLines ==
    {DefineLine(Text_N, Text_5), DefineEmpty(Text_G), DefineLine(Text_N, Text_5_plus_1),
     DefineLine(Text_A, Text_B), DefineLine(Text_B, Text_C), DefineLine(Text_5, Text_7)}

UseLines ==
    {Text_int_x_is(Text_N), UseLine(Text_N), Text_int_x_is(Text_A), Text_int_x_is(Text_5),
     Text_x_is \o UseTwice(Text_N) \o <<LF>>}

\* A define, a line or none, a second define or none, and a line of uses;
\* or a define, a line of uses and a line after it; or a define as the last
\* line.
DefineFiles ==
    {Files1(d1 \o f \o d2 \o u) :
        d1 \in DefineLines, f \in Fillers, d2 \in DefineLines \cup {<<>>}, u \in UseLines}
    \cup {Files1(d1 \o u \o Text_int_y) : d1 \in DefineLines, u \in UseLines}
    \cup {Files1(f \o d1) : f \in Fillers, d1 \in DefineLines}

InitDefine == \E files \in DefineFiles : Start(files, FALSE)

SpecDefine == InitDefine /\ [][NextFile]_vars

\* Token a is the `define` of a define directive.
IsDefine(m, a) == a # NULL /\ m.tok[a].is_directive /\ m.tok[a].string = Str_define

\* The driver is about to process the define directive of pp.token, which
\* has a name on its line.
AtDefineLine ==
    /\ pc = "preprocess_loop"
    /\ IsDefine(mem, pp.token)
    /\ mem.tok[pp.token].next # NULL
    /\ same_line(mem.tok[mem.tok[pp.token].next].location, mem.tok[pp.token].location)

\* The tokens of `chain` from the i-th on that stand on the line of `location`.
RECURSIVE LineFrom(_, _, _, _)
LineFrom(m, chain, i, location) ==
    IF i > Len(chain) \/ ~same_line(m.tok[chain[i]].location, location) THEN <<>>
    ELSE <<chain[i]>> \o LineFrom(m, chain, i + 1, location)

\* The texts of the tokens `run`, one after the other, nothing between them.
RECURSIVE Concat(_, _)
Concat(m, run) == IF run = <<>> THEN <<>> ELSE m.tok[run[1]].string \o Concat(m, Tail(run))

\* The define whose `define` is chain[i] has recorded for its name the texts
\* of the tokens `value`, and the list has lost the directive's three tokens
\* and `value`, nothing else.
DefineRecorded(chain, i, value) ==
    /\ hash_map_get_key(pp'.define_map, mem.tok[chain[i + 1]].string) = Concat(mem, value)
    /\ Tokens(mem', token_list') =
           SubSeq(chain, 1, i - 2) \o SubSeq(chain, i + 2 + Len(value), Len(chain))

DefineRecordedAt(chain, i) ==
    DefineRecorded(chain, i, LineFrom(mem, chain, i + 2, mem.tok[chain[i]].location))

\* C25: a `#define NAME ...` records for NAME the texts of the tokens after
\* NAME on the line of the directive, in order and with nothing between
\* them (the empty text when there is none), and takes from the list the
\* tokens of that line only.
C25_DefineTextFromItsLine ==
    [][AtDefineLine =>
          DefineRecordedAt(Tokens(mem, token_list),
                           IndexOf(Tokens(mem, token_list), pp.token))]_vars

\* The token that stands after token `before` in the list, the front of
\* the list when `before` is NULL.
NextAfter(m, list, before) == IF before = NULL THEN list.front_token ELSE m.tok[before].next

\* C26: when the driver has processed a define directive, the token it
\* examines next is the one that follows the directive's line, the one that
\* now stands in the list where the directive stood: no token is passed over.
C26_NoTokenSkippedAfterDefine ==
    [][(AtDefineLine /\ pc' = "preprocess_loop") =>
          pp'.token = NextAfter(mem', token_list', mem.tok[mem.tok[pp.token].prev].prev)]_vars

\* The tokenizer's tokens of the input file: its heap and its list.
RawMem == RawOf(fs[input_file]).mem
RawTokens == RawChain(RawOf(fs[input_file]))

\* The text `string` is the name of a define directive that stands before
\* the i-th of the tokenizer's tokens rc, in the tokenizer's heap rm.
NameDefinedBefore(rm, rc, i, string) ==
    \E j \in 1..(i - 2) :
        /\ rm.tok[rc[j]].is_directive
        /\ rm.tok[rc[j]].string = Str_define
        /\ rm.tok[rc[j + 1]].string = string

\* C27: the driver rewrites the text of a token only if the token is no
\* directive, is flagged is_identifier, and has as its text the name of a
\* define directive before it; numbers, punctuation, literals and comments
\* keep their text.
C27_OnlyIdentifiersSubstituted ==
    [][\A a \in ListSet :
          (a \in DOMAIN mem'.tok /\ mem'.tok[a].string # mem.tok[a].string) =>
              /\ ~mem.tok[a].is_directive
              /\ mem.tok[a].is_identifier
              /\ NameDefinedBefore(RawMem, RawTokens, IndexOf(RawTokens, a), mem.tok[a].string)]_vars

\* #define A B\n#define B C\nint x = A;\n
Text_chain_A_B_C == DefineLine(Text_A, Text_B) \o DefineLine(Text_B, Text_C) \o Text_int_x_is(Text_A)

\* int x = B ;
Texts_int_x_is_B == <<<<"i", "n", "t">>, <<"x">>, <<"=">>, Text_B, <<";">>>>

\* A token whose text the step changes had the text the tokenizer gave it,
\* and has now the text recorded for that text.
RewrittenOnce ==
    \A a \in ListSet :
        (a \in DOMAIN mem'.tok /\ mem'.tok[a].string # mem.tok[a].string) =>
            /\ mem.tok[a].string = RawMem.tok[a].string
            /\ mem'.tok[a].string = hash_map_get_key(pp.define_map, mem.tok[a].string)

\* The define whose `define` is chain[i] has recorded for its name the
\* texts the tokenizer gave the k tokens that the step took from the list
\* after the name.
RecordedUnexpanded(chain, i, k) ==
    hash_map_get_key(pp'.define_map, mem.tok[chain[i + 1]].string)
        = Concat(RawMem, SubSeq(chain, i + 2, i + 1 + k))

RecordedUnexpandedAt(chain, i) ==
    RecordedUnexpanded(chain, i, Len(chain) - Len(Tokens(mem', token_list')) - 3)

\* C28: a token is rewritten at most once, to the text recorded for its
\* text, and that new text is not looked up again; a define records the
\* texts of its replacement tokens as the tokenizer gave them.  After
\* `#define A B` and `#define B C` the use of A in `int x = A;` has the
\* text B.
C28_NoReExpansion ==
    /\ [][RewrittenOnce]_vars
    /\ [][(AtDefineLine /\ pc' = "preprocess_loop") =>
              RecordedUnexpandedAt(Tokens(mem, token_list),
                                   IndexOf(Tokens(mem, token_list), pp.token))]_vars
    /\ []((fs = Files1(Text_chain_A_B_C) /\ pc = "write")
              => Texts(mem, token_list) = Texts_int_x_is_B)

C28_Witness ==
    /\ fs = Files1(Text_chain_A_B_C)
    /\ pc = "write"
    /\ Texts(mem, token_list) = Texts_int_x_is_B
    /\ hash_map_get_key(pp.define_map, Text_B) = Text_C

\* Token a is the same in m1 as in m, but for its text and its column.
SameButTextAndColumn(m, m1, a) ==
    m1.tok[a] = [m.tok[a] EXCEPT !.string = m1.tok[a].string,
                                 !.location.column = m1.tok[a].location.column]

\* The step from m to m1 that rewrote chain[i] has changed nothing but the
\* text of chain[i] and the columns of tokens after it on its line.
SubstitutionFrame(m, m1, chain, i) ==
    /\ m1.tok[chain[i]].location = m.tok[chain[i]].location
    /\ \A j \in 1..Len(chain) :
           /\ SameButTextAndColumn(m, m1, chain[j])
           /\ j # i => m1.tok[chain[j]].string = m.tok[chain[j]].string
           /\ m1.tok[chain[j]].location.column # m.tok[chain[j]].location.column =>
                  j > i /\ same_line(m.tok[chain[j]].location, m.tok[chain[i]].location)

\* The driver is at a token that is no directive and whose text the step
\* changes.
Substituting ==
    /\ pc = "preprocess_loop"
    /\ pp.token # NULL
    /\ ~mem.tok[pp.token].is_directive
    /\ pp.token \in DOMAIN mem'.tok
    /\ mem'.tok[pp.token].string # mem.tok[pp.token].string

\* C29: the substitution of a token changes the text of that token and the
\* columns of later tokens on its line of its file, and nothing else: the
\* token's flags, operator and location, the other tokens' texts, the lines,
\* files and flags of all tokens, the columns of the tokens before it or on
\* other lines, and the tokens of the list and their order stay as they were.
C29_SubstitutionFrame ==
    [][Substituting =>
          /\ token_list' = token_list
          /\ Tokens(mem', token_list') = Tokens(mem, token_list)
          /\ SubstitutionFrame(mem, mem', Tokens(mem, token_list),
                               IndexOf(Tokens(mem, token_list), pp.token))]_vars

\* N of `x = N + N;` has become 5 + 1 and the tokens after it on its line
\* have moved, those before it have not.
C29_Witness ==
    /\ pc = "preprocess_loop"
    /\ pp.token # NULL
    /\ mem.tok[pp.token].string = <<"+">>
    /\ mem.tok[mem.tok[pp.token].prev].string = <<"5", "+", "1">>
    /\ RawMem.tok[mem.tok[pp.token].prev].string = Text_N
    /\ mem.tok[pp.token].location.column = RawMem.tok[pp.token].location.column + 2
    /\ mem.tok[mem.tok[pp.token].prev].location = RawMem.tok[mem.tok[pp.token].prev].location

(***************************************************************************)
(* The program on files with a `#`, with and without tokens and comments   *)
(* before it on its line.                                                  *)
(***************************************************************************)
\* What stands before the `#`: nothing, a name, a comment, a line, a `#`.
DirectivePre ==
    {<<>>, <<"a", " ">>, <<"/", "*", "c", "*", "/", " ">>, <<"/", "/", "c", LF>>,
     <<"a", LF>>, <<"#", " ">>, <<"/", "*", "c", LF, "*", "/">>}

\* What stands between the `#` and the token after it.
DirectiveMid == {<<>>, <<" ">>, <<"/", "*", "c", "*", "/">>, <<LF>>}

\* The token after the `#`.
DirectiveNames == {<<"a">>, <<"5">>, <<"#">>}

\* What stands after that token.
DirectivePost == {<<>>, <<" ", "a", LF>>, <<LF, "#", "a">>}

InitDirective ==
    \E pre \in DirectivePre, mid \in DirectiveMid, name \in DirectiveNames,
       post \in DirectivePost, keep \in BOOLEAN :
        Start(Files1(pre \o <<"#">> \o mid \o name \o post), keep)

SpecDirective == InitDirective /\ [][NextFile]_vars

\* The token before chain[i] is a `#` that is the first token of its line
\* of its file.
AfterLeadingHash(m, chain, i) ==
    /\ i > 1
    /\ m.tok[chain[i - 1]].operator = "#"
    /\ ~(i > 2 /\ same_line(m.tok[chain[i - 1]].location, m.tok[chain[i - 2]].location))

\* Every token of `chain` is flagged is_directive just when it stands after
\* a leading `#`.
DirectiveFlags(m, chain) ==
    \A i \in 1..Len(chain) : m.tok[chain[i]].is_directive <=> AfterLeadingHash(m, chain, i)

\* C30: every token the tokenizer has appended is flagged is_directive if
\* and only if the token before it has the operator `#` and that `#` has no
\* token before it on its line of its file; and the deletion of the
\* comments changes the flag of no token, whatever stood before the `#`.
C30_DirectiveFlag ==
    /\ [](pc \in {"tokenize_file", "counts", "delete_comments"}
              => DirectiveFlags(mem, Chain(mem, IF pc = "tokenize_file"
                                                THEN tk.list.front_token
                                                ELSE token_list.front_token)))
    /\ [][pc = "delete_comments" =>
              \A a \in ListSet :
                  a \in DOMAIN mem'.tok => mem'.tok[a].is_directive = mem.tok[a].is_directive]_vars

\* The comment before `#` on its line is gone, `#` is now the first token of
\* its line, and the token after it is still no directive.
C30_Witness ==
    /\ pc = "preprocess_token_list"
    /\ ~keep_comments
    /\ token_list.front_token # NULL
    /\ mem.tok[token_list.front_token].operator = "#"
    /\ RawMem.tok[token_list.front_token].prev # NULL
    /\ RawMem.tok[RawMem.tok[token_list.front_token].prev].is_comment
    /\ same_line(RawMem.tok[RawMem.tok[token_list.front_token].prev].location,
                 mem.tok[token_list.front_token].location)
    /\ mem.tok[token_list.front_token].next # NULL
    /\ ~mem.tok[mem.tok[token_list.front_token].next].is_directive
    /\ same_line(mem.tok[mem.tok[token_list.front_token].next].location,
                 mem.tok[token_list.front_token].location)

(***************************************************************************)
(* The program on files that include d/b.c, with lines and empty lines     *)
(* after the directive, d/b.c holding tokens or none.                      *)
(***************************************************************************)
\* int x;\n
Text_int_x_line == Text_int_x \o <<LF>>

\* What d/b.c holds: tokens, or none.
SpacerIncluded == {Text_int_x, Text_int_x_line, <<>>, <<" ", LF>>}

\* The empty lines after the directive.
SpacerGaps == {<<>>, <<LF>>, <<LF, LF>>}

SpacerFiles ==
    {Files2(pre \o Text_include_line \o gap \o post, b) :
        pre \in {<<>>, Text_int_y}, gap \in SpacerGaps,
        post \in {<<>>, Text_int_y, <<" ", " ">> \o Text_int_y}, b \in SpacerIncluded}

InitSpacer == \E files \in SpacerFiles, keep \in BOOLEAN : Start(files, keep)

SpecSpacer == InitSpacer /\ [][Next]_vars

Range(seq) == {seq[i] : i \in 1..Len(seq)}

IsPrefix(p, text) == Len(p) <= Len(text) /\ SubSeq(text, 1, Len(p)) = p

\* tokenize_file has returned the tokens of an included file to the include
\* branch, and the splice succeeds.
Spliced ==
    /\ pc = "tokenize_file"
    /\ tk.mode = "done"
    /\ tk.ret = "include"
    /\ tk.list.front_token # NULL
    /\ pc' = "preprocess_loop"

\* Token s is a spacer of file `file_name` for a directive on line `line`.
IsSpacer(m, s, file_name, line) ==
    /\ m.tok[s].string = NullString
    /\ m.tok[s].location = [file_name |-> file_name, line |-> line + 1, column |-> 0]

\* The list after the splice: the tokens before the directive, the tokens
\* `sub` of the included file, the spacer s alone, the tokens after the
\* directive, whose last token is chain[i].
SpacerInPlace(chain, i, sub, s) ==
    /\ s \notin Range(chain) \cup Range(sub)
    /\ Tokens(mem', token_list') =
           SubSeq(chain, 1, i - 3) \o sub \o <<s>> \o SubSeq(chain, i + 1, Len(chain))
    /\ IsSpacer(mem', s, mem.tok[chain[i]].location.file_name, mem.tok[chain[i]].location.line)

\* The text written from the spacer s on, the writer coming from a token of
\* another file, begins with the line break of the return to the file of
\* s; the token t after s, when it is on line M of that file and not before
\* the line of s, follows after M - line(s) line breaks and its column's
\* spaces.
SpacerRendered(m, s, t) ==
    (t # NULL /\ m.tok[t].location.file_name = m.tok[s].location.file_name
              /\ m.tok[t].location.line >= m.tok[s].location.line) =>
        IsPrefix(<<LF>> \o Repeat(LF, m.tok[t].location.line - m.tok[s].location.line)
                        \o Repeat(" ", m.tok[t].location.column)
                        \o m.tok[t].string,
                 write_tokens(m, s, [file_name |-> NULL, line |-> 1, column |-> 0]))

\* C31: after the splice of an included file that has tokens, one spacer
\* without text, of the including file, on the line after the directive's
\* file name and at column 0, stands directly after the last included token
\* and directly before the tokens that followed the directive; written, a
\* token of the including file on line M, not before the spacer's line
\* L + 1, comes M - (L + 1) line breaks after the line break of the return
\* to the including file.
C31_SpacerAfterInclude ==
    [][Spliced =>
          /\ SpacerInPlace(Tokens(mem, token_list), IndexOf(Tokens(mem, token_list), pp.token),
                           Chain(mem, tk.list.front_token), mem'.brk)
          /\ SpacerRendered(mem', mem'.brk, mem'.tok[mem'.brk].next)]_vars

\* The spacer stands after the tokens of d/b.c, and the token after it is
\* two lines below it.
C31_Witness ==
    /\ pc = "preprocess_loop"
    /\ \E s \in ListSet :
           /\ IsSpacer(mem, s, 1, mem.tok[s].location.line - 1)
           /\ mem.tok[s].prev # NULL
           /\ mem.tok[mem.tok[s].prev].location.file_name = 2
           /\ mem.tok[s].next # NULL
           /\ mem.tok[mem.tok[s].next].location.line = mem.tok[s].location.line + 2

\* The input file gives a list without tokens once the comments are
\* deleted: the tokenizer gives no token, or comments only and
\* keep_comments is not set.
NoTokenLeft ==
    \/ RawTokens = <<>>
    \/ ~keep_comments /\ \A i \in 1..Len(RawTokens) : RawMem.tok[RawTokens[i]].is_comment

\* C32: when the input file gives an empty token list (an empty file, white
\* space only, or comments that are all deleted) the program goes through
\* preprocessing, writing and delete_token_list without a crash and ends
\* with success.
C32_EmptyListHandled == NoTokenLeft => ~Crashed

\* The define whose `define` is chain[i] has a replacement list, and no
\* token stands after the directive's line.
DefineOnLastLine(chain, i) ==
    /\ LineFrom(mem, chain, i + 2, mem.tok[chain[i]].location) # <<>>
    /\ i + 1 + Len(LineFrom(mem, chain, i + 2, mem.tok[chain[i]].location)) = Len(chain)

\* The driver has recorded the define of chain[i], taken its tokens from the
\* list and come to the end of the list.
DefineDoneAtEnd(chain, i) ==
    /\ pc' = "preprocess_loop"
    /\ pp'.token = NULL
    /\ DefineRecordedAt(chain, i)

\* C33: a `#define NAME body` on the last line of the list is recorded, its
\* tokens are deleted and the driver comes to the end of its pass, without
\* a crash.
C33_DefineOnLastLine ==
    [][(AtDefineLine /\ DefineOnLastLine(Tokens(mem, token_list),
                                         IndexOf(Tokens(mem, token_list), pp.token)))
           => DefineDoneAtEnd(Tokens(mem, token_list),
                              IndexOf(Tokens(mem, token_list), pp.token))]_vars

\* tokenize_file has returned a list without tokens to the include branch.
EmptySplice ==
    /\ pc = "tokenize_file"
    /\ tk.mode = "done"
    /\ tk.ret = "include"
    /\ tk.list.front_token = NULL

\* The driver goes on with a well-formed list that holds the tokens of
\* `chain` but the three of the directive, whose last token is chain[i].
DirectiveRemoved(chain, i) ==
    /\ pc' = "preprocess_loop"
    /\ WellFormed(mem', token_list')
    /\ \A j \in 1..Len(chain) :
           chain[j] \in Range(Tokens(mem', token_list')) <=> j \notin {i - 2, i - 1, i}

\* C34: when the included file gives no token, the include branch takes
\* the directive's three tokens from the list, leaves the list well-formed
\* with the other tokens in it, and the driver goes on without a crash.
C34_EmptyIncludeHandled ==
    [][EmptySplice =>
          DirectiveRemoved(Tokens(mem, token_list),
                           IndexOf(Tokens(mem, token_list), pp.token))]_vars

\* The places from the k-th character of s on where a `*/` begins.
Closers(s, k) == {i \in k..(Len(s) - 1) : s[i] = "*" /\ s[i + 1] = "/"}

\* The block comment that opens file content s, which is closed: the text
\* from its `/*` through the first `*/` that begins after the two.
BlockCommentOf(s) == SubSeq(s, 1, (CHOOSE i \in Closers(s, 3) : \A j \in Closers(s, 3) : i <= j) + 1)

\* C35: a token that begins with `/*` goes through the first `*/` that
\* begins after these two characters: the `*` of `/*` is not taken for the
\* `*` of `*/`, so no comment token is the text `/*/`, and a file that
\* begins with a closed block comment has that comment as its first token.
C35_BlockCommentMatching ==
    pc = "counts" =>
        /\ \A a \in ListSet :
               (mem.tok[a].is_comment /\ CharAt(mem.tok[a].string, 1) = "*")
                   => Len(mem.tok[a].string) >= 4
        /\ (IsPrefix(<<"/", "*">>, fs[input_file]) /\ Closers(fs[input_file], 3) # {})
               => /\ token_list.front_token # NULL
                  /\ mem.tok[token_list.front_token].string = BlockCommentOf(fs[input_file])

\* The text s up to its first line terminator, all of it when it has none.
RECURSIVE FirstLine(_)
FirstLine(s) ==
    IF s = <<>> \/ s[1] \in {LF, CR} THEN <<>> ELSE <<s[1]>> \o FirstLine(Tail(s))

\* C36: a token that begins with `//` ends before the terminator of its
\* line, be it LF, CR or CR LF: its text holds no line terminator, and a
\* file that begins with `//` has the text of its first line as its first
\* token, what follows being tokenized on its own.
C36_LineCommentExtent ==
    pc = "counts" =>
        /\ \A a \in ListSet :
               (mem.tok[a].is_comment /\ CharAt(mem.tok[a].string, 1) = "/")
                   => \A i \in 1..Len(mem.tok[a].string) : mem.tok[a].string[i] \notin {LF, CR}
        /\ IsPrefix(<<"/", "/">>, fs[input_file])
               => /\ token_list.front_token # NULL
                  /\ mem.tok[token_list.front_token].string = FirstLine(fs[input_file])

\* The text s without its white space.
RECURSIVE NoSpace(_)
NoSpace(s) ==
    IF s = <<>> THEN <<>>
    ELSE IF isspace(s[1]) THEN NoSpace(Tail(s))
    ELSE <<s[1]>> \o NoSpace(Tail(s))

\* C37: the texts of the tokens, one after the other in list order, are the
\* normalized text of the file without the white space between the tokens,
\* a block comment left open at the end of the file included; so the two
\* texts are the same once all white space is taken from both, and no token
\* holds a character that the file does not hold at that place.
C37_TokenizerLossless ==
    pc = "counts" =>
        NoSpace(Concat(mem, Tokens(mem, token_list))) = NoSpace(CrLfToLf(fs[input_file]))

\* The 0-based place of the first character of s at or after place `at`
\* that is no white space, the length of s when there is none.
RECURSIVE SkipSpaces(_, _)
SkipSpaces(s, at) ==
    IF at >= Len(s) \/ ~isspace(s[at + 1]) THEN at ELSE SkipSpaces(s, at + 1)

\* The columns at which the texts `texts` begin in the one line s, one
\* after the other, from place `at` on.
RECURSIVE StartColumns(_, _, _)
StartColumnsAt(s, texts, c) == <<c>> \o StartColumns(s, Tail(texts), c + Len(texts[1]))

StartColumns(s, texts, at) ==
    IF texts = <<>> THEN <<>> ELSE StartColumnsAt(s, texts, SkipSpaces(s, at))

\* The file is one line, its literals are closed, and the texts of its
\* tokens are its text.
OneLineOfTokens ==
    /\ \A i \in 1..Len(fs[input_file]) : fs[input_file][i] \notin {LF, CR}
    /\ LiteralsClosed(fs[input_file], NUL)
    /\ NoSpace(Concat(mem, Tokens(mem, token_list))) = NoSpace(fs[input_file])

\* Token chain[k] has the column cols[k] and ends before the next token begins.
ColumnsAre(m, chain, cols) ==
    \A k \in 1..Len(chain) :
        /\ m.tok[chain[k]].location.column = cols[k]
        /\ k < Len(chain) =>
               m.tok[chain[k + 1]].location.column
                   >= m.tok[chain[k]].location.column + Len(m.tok[chain[k]].string)

\* C38: a token that lies on one line has as its column the 0-based column
\* of its first character, and the token after it on the line begins at or
\* after its end; stated for the files of one line, whose tokens are names,
\* punctuation, literals and comments, the last one at the end of the file.
C38_TokenStartColumn ==
    (pc = "counts" /\ OneLineOfTokens)
        => ColumnsAre(mem, Tokens(mem, token_list),
                      StartColumns(fs[input_file], Texts(mem, token_list), 0))

\* The two counts of the list that the tokenizer gives for the input file.
CountsOf(r) ==
    [lines |-> count_non_empty_lines(r.mem, r.tk.list),
     comments |-> count_comments(r.mem, r.tk.list)]

\* C39: the two counts that a run reports are the counts of the list that
\* the tokenizer gave for the input file, before any comment is deleted and
\* before preprocessing, whatever keep_comments is: two runs on the same
\* file that differ in keep_comments only report the same counts.
C39_CountsIndependent ==
    pc \notin {"main", "tokenize_file", "counts"} => counts = CountsOf(RawOf(fs[input_file]))

\* Without keep_comments the one comment of the file is counted, and it is
\* no longer in the list.
C39_Witness ==
    /\ ~keep_comments
    /\ pc = "preprocess_token_list"
    /\ counts.comments = 1
    /\ counts.lines = 2
    /\ \A a \in ListSet : ~mem.tok[a].is_comment

(***************************************************************************)
(* The hash map on its own: insertions and deletions of keys in a map of   *)
(* the driver's size and seed.                                             *)
(***************************************************************************)
\* QI and QJ share a slot, MP and OV share a slot; QK and N share none.
MapKeys == {Text_QI, Text_QJ, Text_QK, Text_MP, Text_OV, Text_N}
MapValues == {Text_1, Text_2}

InitMap ==
    /\ fs = Files1(<<>>)
    /\ keep_comments = FALSE
    /\ pc = "new_hash_map"
    /\ mem = EmptyMem
    /\ token_list = EmptyList
    /\ tk = TkIdle
    /\ pp = PpIdle
    /\ file_vector = <<>>
    /\ counts = [lines |-> -1, comments |-> -1]
    /\ out = NoFile
    /\ diag = <<>>

MapCalls == {"new_hash_map", "hash_map_insert_key", "hash_map_delete_key"}

\* hash_map_insert_key(define_map, key, value)
MapInsert ==
    /\ pc \in MapCalls
    /\ \E key \in MapKeys, value \in MapValues :
           pp' = [pp EXCEPT !.define_map = hash_map_insert_key(@, key, value)]
    /\ pc' = "hash_map_insert_key"
    /\ UNCHANGED <<fs, keep_comments, mem, token_list, tk, file_vector, counts, out, diag>>

\* hash_map_delete_key(define_map, key)
MapDelete ==
    /\ pc \in MapCalls
    /\ \E key \in MapKeys :
           pp' = [pp EXCEPT !.define_map = hash_map_delete_key(@, key)]
    /\ pc' = "hash_map_delete_key"
    /\ UNCHANGED <<fs, keep_comments, mem, token_list, tk, file_vector, counts, out, diag>>

NextMap ==
    \/ MapInsert
    \/ MapDelete

SpecMap == InitMap /\ [][NextMap]_vars

\* The step is the deletion of key k from the map.
Deletes(k) ==
    /\ pc' = "hash_map_delete_key"
    /\ pp'.define_map = hash_map_delete_key(pp.define_map, k)

\* The slot of every key is an index of the map's array.
SlotsInRange(hash_map) ==
    \A k \in MapKeys : hash_map_hash(hash_map, k) \in 0..(hash_map.size - 1)

\* C40 as stated: after hash_map_delete_key(map, k) the lookup of k gives
\* no value and the lookup of every other key gives what it gave before;
\* every slot index is within [0, size).
C40_DeleteKeyFrame ==
    [][\A k \in MapKeys :
          Deletes(k) =>
              /\ hash_map_get_key(pp'.define_map, k) = NullString
              /\ \A k2 \in MapKeys \ {k} :
                     hash_map_get_key(pp'.define_map, k2) = hash_map_get_key(pp.define_map, k2)
              /\ SlotsInRange(pp.define_map)]_vars

\* C40, amended: after hash_map_delete_key(map, k) the lookup of k, and of
\* every key that has the slot of k, gives no value; the lookup of every key
\* with another slot gives what it gave before; every slot index is within
\* [0, size).
C40_DeleteKeyFrameOfSlot ==
    [][\A k \in MapKeys :
          Deletes(k) =>
              /\ hash_map_get_key(pp'.define_map, k) = NullString
              /\ \A k2 \in MapKeys :
                     hash_map_get_key(pp'.define_map, k2) =
                         (IF hash_map_hash(pp.define_map, k2) = hash_map_hash(pp.define_map, k)
                          THEN NullString
                          ELSE hash_map_get_key(pp.define_map, k2))
              /\ SlotsInRange(pp.define_map)]_vars

\* QI has been deleted: QI and QJ, which has its slot, have no value, QK and
\* MP have theirs.
C40_Witness ==
    /\ pc = "hash_map_delete_key"
    /\ hash_map_get_key(pp.define_map, Text_QI) = NullString
    /\ hash_map_get_key(pp.define_map, Text_QJ) = NullString
    /\ hash_map_get_key(pp.define_map, Text_QK) = Text_1
    /\ hash_map_get_key(pp.define_map, Text_MP) = Text_2

====
